---- MODULE Spec2Model ----
(***************************************************************************)
(* Capture & Recovery Engine of hdmi-in-display: the main (render) loop    *)
(* and the background reopen worker of hdmi_simple_display.cpp as printed  *)
(* in src/PR_DESCRIPTION.md, lines 551-1339.  Two threads of control: the  *)
(* main thread (program counter mpc) and the detached worker (wpc).  Each  *)
(* action is one block of the code that runs without releasing or taking   *)
(* restart_mutex in its middle; the driver's answers (ioctl results, byte  *)
(* counts, formats) are chosen by \E.                                      *)
(***************************************************************************)
EXTENDS Integers, Sequences, FiniteSets, TLC

----------------------------------------------------------------------------
(* Program constants *)
BUF_COUNT == 4
PATTERN_TIMEOUT_MS == 800
RECOVERY_GRACE_MS == 3000
EINVAL_RESTART_THRESHOLD == 8
STREAM_RESTART_RETRIES == 3
BG_REOPEN_VERIFY_MAX_ATTEMPTS == 6
DeviceFd == 3
INT_MAX == 2147483647  \* int attempt: 32 bits
TABLE_ENTRIES == 150   \* out.assign(150 * 2, 0)
GAP_ARRAY_SIZE == 8    \* uniform int gap_rows[8]
MAX_SEGMENT == 16      \* clamp(segmentIndex, 1, 16)
PER_MODULE == 50       \* offsetxy1: modules 1..3 concatenated, 50 each

(* Bounds of the model *)
TickMs == 600          \* granularity of the clock
MaxNow == 2000         \* the clock stops here
MaxFmt == 2            \* formats the driver can report: 1..MaxFmt, 0 = unreadable / zero-sized
MaxBytes == 1          \* plane-0 byte counts of a dequeued frame: 0..MaxBytes
MaxFrame == 3          \* frame contents the driver can deliver: 1..MaxFrame
LongFileLines == 151   \* lines of the longest module file
MaxRows == 16          \* tiles per column of the largest grid: 1..MaxRows
MaxPx == 9             \* output pixels looked at: columns 0..MaxPx
MaxPy == 14            \* output pixels looked at: rows 0..MaxPy
MaxPasses == 12        \* worker loop passes followed from each starting attempt number

Formats == 1..MaxFmt

----------------------------------------------------------------------------
VARIABLES
  \* capture-side state shared by both threads
  fd,                     \* device handle, -1 = closed
  buffers,                \* number of entries of the buffers vector
  mapped,                 \* buffers of the pool whose planes are memory-mapped
  streaming,              \* the driver is streaming on fd
  cur_fmt,                \* cur_width/cur_height/cur_pixfmt, as a format id
  \* recovery state (locals of main captured by reference in the lambdas)
  einval_count, signal_lost, last_good_frame, last_recovered_time,
  need_gl_update, auto_reopen_in_progress,
  restart_mutex,          \* "free", "main" or "worker"
  now,                    \* steady clock, ms
  \* main thread
  mpc, revents_pri, bytesused0, ev_fmt,
  dq_result,              \* outcome of this iteration's DQBUF: errno class, "OK", "ZERO" (bytesused 0), "none"
  soft,                   \* the in-place soft restart of this iteration: calls of restart_v4l_stream made (r), restarted
  tex_fmt, showPattern,   \* graphics state: texture allocation, u_showPattern
  \* background worker
  wpc, v, verified,
  vrec,                   \* what the current verify attempt saw: poll, DQBUF, bytes, QBUF
  \* history variables
  stream_verified,        \* a frame was dequeued and requeued by the worker since the last (re)start of the stream
  einval_run,             \* EINVAL dequeue errors seen by main since the last good frame
  recovered_at,           \* time of the last completed recovery, 0 = none
  \* snapshot (key 's')
  live_frame,             \* content of the mapped capture buffer last dequeued, 0 = not mapped
  lastY,                  \* main's private copy of the last uploaded frame, 0 = none (last_width = 0)
  snap,                   \* the snapshot thread: its position, its argument, what it read
  \* per-tile offsets (startup and key 'k')
  modFiles,               \* the three module files as found at the last load
  offsetData,             \* the offset table, x0,y0,x1,y1,.. ; empty before the first load
  \* tile grid mapper (fragment shader) and its parameters
  uniforms,               \* the uniforms of the linked program, as the shader reads them
  frag,                   \* what the shader computed for the fragment last evaluated
  host,                   \* main's render parameters: ctrl, rotation, flips, segment, gaps, decode flags
  \* buffer ownership and the poll target
  pool,                   \* buffers of the current pool the application holds (dequeued, not requeued), buf.index, loop position
  pfd,                    \* main's struct pollfd
  \* the worker's retry counter
  backoff                 \* the worker's int attempt, the delay of its last backoff sleep, whether its loop runs

capVars  == <<fd, buffers, mapped, streaming, cur_fmt>>
recVars  == <<einval_count, signal_lost, last_good_frame, last_recovered_time>>
mainLoc  == <<revents_pri, bytesused0, ev_fmt, dq_result, soft>>
glVars   == <<tex_fmt, showPattern>>
startVars == <<auto_reopen_in_progress, wpc>>
workLoc  == <<v, verified, vrec>>
histVars == <<stream_verified, einval_run, recovered_at>>
snapVars == <<live_frame, lastY, snap>>
offVars  == <<modFiles, offsetData>>
mapVars  == <<uniforms, frag>>
uiVars   == <<host>>
poolVars == <<pool, pfd>>
backoffVars == <<backoff>>
auxVars  == <<snapVars, offVars, mapVars, uiVars, poolVars, backoffVars>>

vars == <<fd, buffers, mapped, streaming, cur_fmt, einval_count, signal_lost,
          last_good_frame, last_recovered_time, need_gl_update,
          auto_reopen_in_progress, restart_mutex, now, mpc, revents_pri,
          bytesused0, ev_fmt, dq_result, soft, tex_fmt, showPattern, wpc,
          v, verified, vrec, stream_verified, einval_run, recovered_at,
          live_frame, lastY, snap, modFiles, offsetData,
          uniforms, frag, host, pool, pfd, backoff>>

NoVrec == [pollin |-> FALSE, dq |-> "none", bytes |-> 0, qbuf |-> FALSE]

(* No snapshot thread is running. *)
NoSnap == [pc |-> "idle", src |-> "own", ybuf |-> 0, req |-> 0, seen |-> 0]

(* A module file that exists in neither candidate directory. *)
Missing == [found |-> FALSE, lines |-> <<>>]

(* The uniforms of a program that was just linked: every uniform is 0.     *)
(* offsetxy1 holds the values uploaded by glUniform2iv, x0,y0,x1,y1,..;    *)
(* an element that was never uploaded reads 0.                             *)
ZeroUniforms ==
  [segmentIndex |-> 0, u_fullInputSize |-> <<0, 0>>, u_segmentsX |-> 0, u_segmentsY |-> 0,
   u_subBlockSize |-> <<0, 0>>, u_tileW |-> 0, u_tileH |-> 0, u_spacingX |-> 0,
   u_spacingY |-> 0, u_marginX |-> 0, u_numTilesPerRow |-> 0, u_numTilesPerCol |-> 0,
   offsetxy1 |-> <<>>,
   rot |-> 0, flip_x |-> 0, flip_y |-> 0, gap_count |-> 0,
   gap_rows |-> <<>> \o [i \in 1 .. GAP_ARRAY_SIZE |-> 0],
   inputTilesTopToBottom |-> 0, full_range |-> 0, use_bt709 |-> 0]

(* The soft restart loop of the main thread has not run in this iteration. *)
NoSoft == [r |-> 0, restarted |-> FALSE]

(* No fragment has been evaluated. *)
NoFrag == [state |-> "none"]

(* main has not reached the set-up of its render parameters. *)
NoHost == [state |-> "none"]

(* main has not reached its loop: no buffer is dequeued, pfd is not set. *)
NoPool == [pc |-> "init", owned |-> {}, idx |-> 0]
NoBackoff == [attempt |-> 0, delay |-> 0, running |-> FALSE]
NoPfd == [fd |-> -1]

(* State of main after open(DEVICE) and the format negotiation, before the  *)
(* buffer pool is requested: no buffers, no stream, no recovery yet         *)
(* (last_recovered_time = epoch).                                           *)
InitMain ==
  /\ fd = DeviceFd /\ buffers = 0 /\ mapped = 0 /\ streaming = FALSE
  /\ cur_fmt \in Formats /\ tex_fmt = cur_fmt
  /\ einval_count = 0 /\ signal_lost = FALSE
  /\ now = TickMs /\ last_good_frame = now /\ last_recovered_time = 0
  /\ need_gl_update = FALSE /\ auto_reopen_in_progress = FALSE
  /\ restart_mutex = "free"
  /\ mpc = "m_start" /\ revents_pri = FALSE /\ bytesused0 = 0 /\ ev_fmt = 0
  /\ dq_result = "none" /\ soft = NoSoft
  /\ showPattern = FALSE
  /\ wpc = "w_idle" /\ v = 0 /\ verified = FALSE
  /\ vrec = NoVrec
  /\ stream_verified = FALSE /\ einval_run = 0 /\ recovered_at = 0
  /\ live_frame = 0 /\ lastY = 0 /\ snap = NoSnap
  /\ modFiles = <<Missing, Missing, Missing>> /\ offsetData = <<>>
  /\ uniforms = ZeroUniforms /\ frag = NoFrag /\ host = NoHost
  /\ pool = NoPool /\ pfd = NoPfd

(* No worker has run yet: int attempt = 0, no backoff sleep. *)
Init == InitMain /\ backoff = NoBackoff

----------------------------------------------------------------------------
(* start_background_reopen without the compare_exchange: a thread is       *)
(* spawned on every call.                                                  *)
start_background_reopen_Unconditional ==
  /\ auto_reopen_in_progress' = TRUE
  /\ wpc' = "w_loop"

(* start_background_reopen: compare_exchange on auto_reopen_in_progress,   *)
(* then the detached worker thread starts at its loop head.                *)
start_background_reopen ==
  IF auto_reopen_in_progress
  THEN UNCHANGED startVars
  ELSE /\ auto_reopen_in_progress' = TRUE
       /\ wpc' = "w_loop"

----------------------------------------------------------------------------
(* The driver's possible answers *)
DqResults == IF fd >= 0 /\ streaming /\ buffers > 0
             THEN {"OK", "EAGAIN", "EINVAL", "EIO", "EOTHER"}
             ELSE {"EAGAIN", "EINVAL", "EIO", "EOTHER"}
QbufResults == IF fd >= 0 THEN BOOLEAN ELSE {FALSE}
EvResults == IF fd >= 0 THEN {"none", "change"} ELSE {"none"}
GrantCounts == {1, BUF_COUNT}

(* Where the allocation of a pool of n buffers fails: at REQBUFS (error or  *)
(* zero buffers), at QUERYBUF, mmap or QBUF of buffer i, at STREAMON, or    *)
(* nowhere.                                                                 *)
AllocFailures(n) ==
  {<<"none", 0>>, <<"REQBUFS", 0>>, <<"STREAMON", 0>>}
    \cup ({"QUERYBUF", "MMAP", "QBUF"} \X (0 .. n - 1))

(* Buffers mapped when the allocation loop stops at failure f: buffers      *)
(* 0..i-1 when QUERYBUF or mmap of buffer i fails, 0..i when its QBUF       *)
(* fails, all n at STREAMON.                                                *)
PlanesMapped(f, n) ==
  CASE f[1] = "REQBUFS" -> 0
    [] f[1] \in {"QUERYBUF", "MMAP"} -> f[2]
    [] f[1] = "QBUF" -> f[2] + 1
    [] OTHER -> n

(* The rollback loop of restart_v4l_stream and of the full reopen:          *)
(* for (bvec : buffers) for (pm : bvec) if (pm.addr && pm.length) munmap.   *)
UnmapAll(m) == m - m

(* Time passes: poll timeouts, sleeps and computation. *)
Tick ==
  /\ now + TickMs <= MaxNow
  /\ now' = now + TickMs
  /\ UNCHANGED <<capVars, recVars, need_gl_update, restart_mutex, mpc, mainLoc,
                 glVars, startVars, workLoc, histVars>>
  /\ UNCHANGED auxVars

----------------------------------------------------------------------------
(* Main thread *)

(* Startup allocation: REQBUFS, QUERYBUF + mmap + QBUF per granted buffer,  *)
(* STREAMON; every failure is close(fd); return 1 (the buffers vector is    *)
(* destroyed, no munmap).  On success main goes on to the loop with         *)
(* last_good_frame = clock::now().                                          *)
MStartup ==
  /\ mpc = "m_start"
  /\ \E n \in GrantCounts : \E f \in AllocFailures(n) :
       IF f[1] = "none"
       THEN /\ buffers' = n /\ mapped' = n /\ streaming' = TRUE
            /\ last_good_frame' = now
            /\ mpc' = "m_poll"
            /\ UNCHANGED fd
       ELSE /\ buffers' = 0 /\ mapped' = PlanesMapped(f, n) /\ streaming' = FALSE
            /\ fd' = -1
            /\ mpc' = "m_done"
            /\ UNCHANGED last_good_frame
  /\ UNCHANGED <<cur_fmt, einval_count, signal_lost, last_recovered_time,
                 need_gl_update, restart_mutex, now, mainLoc, glVars, startVars,
                 workLoc, histVars>>
  /\ UNCHANGED auxVars

(* poll(&pfd, 1, POLL_TIMEOUT_MS); a poll error other than EINTR leaves the loop. *)
MPoll ==
  /\ mpc = "m_poll"
  /\ \E pollfail \in BOOLEAN, pri \in BOOLEAN :
       IF pollfail
       THEN /\ mpc' = "m_shutdown" /\ UNCHANGED revents_pri
       ELSE /\ mpc' = "m_gl" /\ revents_pri' = pri
  /\ UNCHANGED <<capVars, recVars, need_gl_update, restart_mutex, now, bytesused0,
                 ev_fmt, dq_result, soft, glVars, startVars, workLoc, histVars>>
  /\ UNCHANGED auxVars

(* if (need_gl_update.load()) { lock_guard lk(restart_mutex); ... *)
MGlCheck ==
  /\ mpc = "m_gl"
  /\ mpc' = IF need_gl_update THEN "m_gl_lock" ELSE "m_dq"
  /\ UNCHANGED <<capVars, recVars, need_gl_update, restart_mutex, now, mainLoc,
                 glVars, startVars, workLoc, histVars>>
  /\ UNCHANGED auxVars

MGlLock ==
  /\ mpc = "m_gl_lock"
  /\ restart_mutex = "free"
  /\ restart_mutex' = "main"
  /\ mpc' = "m_gl_body"
  /\ UNCHANGED <<capVars, recVars, need_gl_update, now, mainLoc, glVars, startVars,
                 workLoc, histVars>>
  /\ UNCHANGED auxVars

(* reallocate_textures(cur_width, cur_height, ..); signal_lost = false;     *)
(* setPattern(false); need_gl_update.store(false); lock released.           *)
MGlBody ==
  /\ mpc = "m_gl_body"
  /\ tex_fmt' = cur_fmt
  /\ signal_lost' = FALSE
  /\ showPattern' = FALSE
  /\ need_gl_update' = FALSE
  /\ restart_mutex' = "free"
  /\ mpc' = "m_dq"
  /\ UNCHANGED <<capVars, einval_count, last_good_frame, last_recovered_time, now,
                 mainLoc, startVars, workLoc, histVars>>
  /\ UNCHANGED auxVars

(* The retry loop of the in-place soft restart:                            *)
(*   for (r = 0; r < STREAM_RESTART_RETRIES; ++r)                          *)
(*     { lock; if (restart_v4l_stream(..)) { restarted = true; break; } }  *)
(* first_ok: the call of restart_v4l_stream that would be the first to     *)
(* succeed, 0 = none would.  r counts the calls made so far.               *)
RECURSIVE SoftRestartLoop(_, _)
SoftRestartLoop(r, first_ok) ==
  IF r >= STREAM_RESTART_RETRIES THEN [r |-> r, restarted |-> FALSE]
  ELSE IF r + 1 = first_ok THEN [r |-> r + 1, restarted |-> TRUE]
  ELSE SoftRestartLoop(r + 1, first_ok)

(* The in-place soft restart of the main loop once einval_count has reached *)
(* the threshold: up to STREAM_RESTART_RETRIES times restart_v4l_stream     *)
(* under restart_mutex, then either the reset of the recovery state or      *)
(* start_background_reopen().                                               *)
MainSoftRestart(first_ok, n) ==
  /\ restart_mutex = "free"
  /\ stream_verified' = FALSE
  /\ soft' = SoftRestartLoop(0, first_ok)
  /\ IF soft'.restarted
     THEN /\ buffers' = n /\ mapped' = n /\ streaming' = TRUE
          /\ einval_count' = 0 /\ last_good_frame' = now /\ last_recovered_time' = now
          /\ signal_lost' = FALSE /\ showPattern' = FALSE
          /\ einval_run' = 0 /\ recovered_at' = now
          /\ UNCHANGED startVars
     ELSE /\ buffers' = 0 /\ mapped' = UnmapAll(mapped) /\ streaming' = FALSE
          /\ einval_count' = einval_count + 1 /\ signal_lost' = TRUE /\ showPattern' = TRUE
          /\ einval_run' = einval_run + 1
          /\ UNCHANGED <<last_good_frame, last_recovered_time, recovered_at>>
          /\ start_background_reopen

(* DQBUF and the classification of its result (EAGAIN / EINVAL / any other *)
(* errno, EIO included / success), skipped while a background reopen is in *)
(* progress.                                                               *)
MDq ==
  /\ mpc = "m_dq"
  /\ IF auto_reopen_in_progress
     THEN /\ mpc' = "m_event"
          /\ dq_result' = "none" /\ soft' = NoSoft
          /\ UNCHANGED <<capVars, recVars, bytesused0, showPattern, startVars, histVars>>
     ELSE \E r \in DqResults, b \in 0..MaxBytes, n \in GrantCounts,
             first_ok \in 0 .. STREAM_RESTART_RETRIES + 1 :
          CASE r = "EAGAIN" ->
                 /\ mpc' = "m_event"
                 /\ dq_result' = r /\ soft' = NoSoft
                 /\ UNCHANGED <<capVars, recVars, bytesused0, showPattern, startVars, histVars>>
            [] r \in {"EIO", "EOTHER"} ->
                 /\ mpc' = "m_event"
                 /\ dq_result' = r /\ soft' = NoSoft
                 /\ UNCHANGED <<capVars, recVars, bytesused0, showPattern, startVars, histVars>>
            [] r = "EINVAL" ->
                 /\ mpc' = "m_event"
                 /\ dq_result' = r
                 /\ IF einval_count + 1 >= EINVAL_RESTART_THRESHOLD
                    THEN /\ MainSoftRestart(first_ok, n)
                         /\ UNCHANGED <<fd, cur_fmt, bytesused0>>
                    ELSE /\ einval_count' = einval_count + 1 /\ soft' = NoSoft
                         /\ signal_lost' = TRUE /\ showPattern' = TRUE
                         /\ einval_run' = einval_run + 1
                         /\ start_background_reopen
                         /\ UNCHANGED <<capVars, last_good_frame, last_recovered_time,
                                        bytesused0, stream_verified, recovered_at>>
            [] r = "OK" ->
                 /\ mpc' = "m_upload"
                 /\ bytesused0' = b
                 /\ dq_result' = IF b = 0 THEN "ZERO" ELSE "OK"
                 /\ soft' = NoSoft
                 /\ IF b = 0
                    THEN /\ signal_lost' = TRUE /\ showPattern' = TRUE
                         /\ start_background_reopen
                    ELSE UNCHANGED <<signal_lost, showPattern, startVars>>
                 /\ UNCHANGED <<capVars, einval_count, last_good_frame,
                                last_recovered_time, histVars>>
  /\ UNCHANGED <<need_gl_update, restart_mutex, now, revents_pri, ev_fmt, tex_fmt, workLoc>>
  /\ UNCHANGED auxVars

(* Upload of the dequeued planes to the textures (reads buffers[buf.index] *)
(* and cur_width/cur_height/cur_pixfmt), skipped when signal_lost.         *)
MUpload ==
  /\ mpc = "m_upload"
  /\ mpc' = "m_requeue"
  /\ UNCHANGED <<capVars, recVars, need_gl_update, restart_mutex, now, mainLoc,
                 glVars, startVars, workLoc, histVars>>
  /\ UNCHANGED auxVars

(* Requeue with QBUF_RETRIES attempts; qbuf_ok: one of them succeeded. *)
MRequeue ==
  /\ mpc = "m_requeue"
  /\ \E qbuf_ok \in QbufResults :
       IF qbuf_ok
       THEN /\ last_good_frame' = now /\ last_recovered_time' = now
            /\ einval_count' = 0
            /\ signal_lost' = FALSE
            /\ showPattern' = IF signal_lost THEN FALSE ELSE showPattern
            /\ einval_run' = IF bytesused0 > 0 THEN 0 ELSE einval_run
            /\ recovered_at' = IF bytesused0 > 0 /\ signal_lost THEN now ELSE recovered_at
       ELSE UNCHANGED <<recVars, showPattern, einval_run, recovered_at>>
  /\ mpc' = "m_event"
  /\ bytesused0' = 0
  /\ UNCHANGED <<capVars, need_gl_update, restart_mutex, now, revents_pri, ev_fmt,
                 dq_result, soft, tex_fmt, startVars, workLoc, stream_verified>>
  /\ UNCHANGED auxVars

(* if (pfd.revents & POLLPRI) while (ioctl(fd, VIDIOC_DQEVENT, &ev) == 0):  *)
(* one SOURCE_CHANGE event and the get_v4l2_format that follows it.          *)
MEvent ==
  /\ mpc = "m_event"
  /\ IF ~revents_pri
     THEN /\ mpc' = "m_timeout"
          /\ UNCHANGED <<signal_lost, showPattern, ev_fmt, startVars>>
     ELSE \E e \in EvResults, nf \in 0..MaxFmt :
          IF e = "none"
          THEN /\ mpc' = "m_timeout"
               /\ UNCHANGED <<signal_lost, showPattern, ev_fmt, startVars>>
          ELSE IF nf = 0
               THEN /\ signal_lost' = TRUE /\ showPattern' = TRUE
                    /\ start_background_reopen
                    /\ mpc' = "m_event"
                    /\ UNCHANGED ev_fmt
               ELSE /\ ev_fmt' = nf
                    /\ mpc' = "m_ev_lock"
                    /\ UNCHANGED <<signal_lost, showPattern, startVars>>
  /\ UNCHANGED <<capVars, einval_count, last_good_frame, last_recovered_time,
                 need_gl_update, restart_mutex, now, revents_pri, bytesused0,
                 dq_result, soft, tex_fmt, workLoc, histVars>>
  /\ UNCHANGED auxVars

MEvLock ==
  /\ mpc = "m_ev_lock"
  /\ restart_mutex = "free"
  /\ restart_mutex' = "main"
  /\ mpc' = "m_ev_body"
  /\ UNCHANGED <<capVars, recVars, need_gl_update, now, mainLoc, glVars, startVars,
                 workLoc, histVars>>
  /\ UNCHANGED auxVars

(* A readable new format: adopt it and reallocate the textures, under the lock. *)
MEvBody ==
  /\ mpc = "m_ev_body"
  /\ IF ev_fmt # cur_fmt
     THEN cur_fmt' = ev_fmt /\ tex_fmt' = ev_fmt
     ELSE UNCHANGED <<cur_fmt, tex_fmt>>
  /\ ev_fmt' = 0
  /\ restart_mutex' = "free"
  /\ mpc' = "m_event"
  /\ UNCHANGED <<fd, buffers, mapped, streaming, recVars, need_gl_update, now,
                 revents_pri, bytesused0, dq_result, soft, showPattern, startVars, workLoc,
                 histVars>>
  /\ UNCHANGED auxVars

(* Frame-arrival timeout with the recovery grace window. *)
within_recovery_grace ==
  /\ last_recovered_time # 0
  /\ now - last_recovered_time < RECOVERY_GRACE_MS

MTimeout ==
  /\ mpc = "m_timeout"
  /\ IF ~signal_lost /\ now - last_good_frame > PATTERN_TIMEOUT_MS /\ ~within_recovery_grace
     THEN /\ signal_lost' = TRUE /\ showPattern' = TRUE
          /\ start_background_reopen
     ELSE UNCHANGED <<signal_lost, showPattern, startVars>>
  /\ mpc' = "m_render"
  /\ UNCHANGED <<capVars, einval_count, last_good_frame, last_recovered_time,
                 need_gl_update, restart_mutex, now, mainLoc, tex_fmt, workLoc, histVars>>
  /\ UNCHANGED auxVars

(* Render: u_showPattern = signal_lost (|| manual_show_pattern), draw, swap. *)
(* The locals of the DQBUF block are out of scope from here on.              *)
MRender ==
  /\ mpc = "m_render"
  /\ showPattern' = signal_lost
  /\ mpc' = "m_ui"
  /\ dq_result' = "none" /\ soft' = NoSoft
  /\ UNCHANGED <<capVars, recVars, need_gl_update, restart_mutex, now, revents_pri,
                 bytesused0, ev_fmt, tex_fmt, startVars, workLoc, histVars>>
  /\ UNCHANGED auxVars

(* SDL event loop: no more events, key 'o' (manual restart), ESC / quit. *)
MUi ==
  /\ mpc = "m_ui"
  /\ \E key \in {"none", "o", "quit"} :
       CASE key = "none" -> mpc' = "m_poll" /\ UNCHANGED startVars
         [] key = "o"    -> mpc' = "m_ui" /\ start_background_reopen
         [] key = "quit" -> mpc' = "m_shutdown" /\ UNCHANGED startVars
  /\ UNCHANGED <<capVars, recVars, need_gl_update, restart_mutex, now, mainLoc,
                 glVars, workLoc, histVars>>
  /\ UNCHANGED auxVars

(* shutdown: munmap of every plane, close(fd), return. *)
MShutdown ==
  /\ mpc = "m_shutdown"
  /\ mpc' = "m_done"
  /\ streaming' = FALSE
  /\ mapped' = UnmapAll(mapped)
  /\ UNCHANGED <<fd, buffers, cur_fmt, recVars, need_gl_update, restart_mutex, now,
                 mainLoc, glVars, startVars, workLoc, histVars>>
  /\ UNCHANGED auxVars

----------------------------------------------------------------------------
(* Background worker: thread body of start_background_reopen, with         *)
(* manual_restart_v4l_only and restart_v4l_stream inlined.                 *)

(* while (auto_reopen_in_progress.load()) { manual_restart_v4l_only() ...   *)
(* The local attempt number only sets the length of the sleep between      *)
(* retries and the log text; it is not part of the state.                  *)
WLoop ==
  /\ wpc = "w_loop"
  /\ wpc' = "w_mr_lock"
  /\ UNCHANGED <<capVars, recVars, need_gl_update, auto_reopen_in_progress,
                 restart_mutex, now, mpc, mainLoc, glVars, workLoc, histVars>>
  /\ UNCHANGED auxVars

(* manual_restart_v4l_only: std::lock_guard lk(restart_mutex); if (fd >= 0) .. *)
WMrLock ==
  /\ wpc = "w_mr_lock"
  /\ restart_mutex = "free"
  /\ restart_mutex' = "worker"
  /\ wpc' = IF fd >= 0 THEN "w_soft_off" ELSE "w_open"
  /\ UNCHANGED <<capVars, recVars, need_gl_update, auto_reopen_in_progress,
                 now, mpc, mainLoc, glVars, v, verified, vrec, histVars>>
  /\ UNCHANGED auxVars

(* restart_v4l_stream, first half: STREAMOFF, munmap of every plane, buffers.clear() *)
WSoftOff ==
  /\ wpc = "w_soft_off"
  /\ streaming' = FALSE
  /\ mapped' = UnmapAll(mapped)
  /\ buffers' = 0
  /\ stream_verified' = FALSE
  /\ wpc' = "w_soft_alloc"
  /\ UNCHANGED <<fd, cur_fmt, recVars, need_gl_update, auto_reopen_in_progress,
                 restart_mutex, now, mpc, mainLoc, glVars, workLoc,
                 einval_run, recovered_at>>
  /\ UNCHANGED auxVars

(* What manual_restart_v4l_only does when the restart (soft or full) has    *)
(* succeeded, before it returns true.                                       *)
RestartSucceeded ==
  /\ last_good_frame' = now
  /\ last_recovered_time' = now
  /\ einval_count' = 0
  /\ signal_lost' = FALSE
  /\ need_gl_update' = TRUE

(* restart_v4l_stream, second half: REQBUFS, QUERYBUF + mmap + QBUF per     *)
(* buffer, STREAMON; every failure unmaps, clears buffers and returns false. *)
WSoftAlloc ==
  /\ wpc = "w_soft_alloc"
  /\ \E n \in GrantCounts : \E f \in AllocFailures(n) :
       IF f[1] = "none"
       THEN /\ buffers' = n /\ mapped' = n /\ streaming' = TRUE
            /\ RestartSucceeded
            /\ restart_mutex' = "free"
            /\ wpc' = "w_vpoll" /\ v' = 0 /\ verified' = FALSE /\ vrec' = NoVrec
            /\ recovered_at' = now
       ELSE /\ buffers' = 0 /\ mapped' = UnmapAll(PlanesMapped(f, n))
            /\ streaming' = FALSE
            /\ wpc' = "w_close"
            /\ UNCHANGED <<recVars, need_gl_update, restart_mutex, v, verified, vrec,
                           recovered_at>>
  /\ UNCHANGED <<fd, cur_fmt, auto_reopen_in_progress, now, mpc, mainLoc,
                 glVars, stream_verified, einval_run>>
  /\ UNCHANGED auxVars

(* if (fd >= 0) { close(fd); fd = -1; } *)
WClose ==
  /\ wpc = "w_close"
  /\ fd' = -1
  /\ streaming' = FALSE
  /\ wpc' = "w_open"
  /\ UNCHANGED <<buffers, mapped, cur_fmt, recVars, need_gl_update,
                 auto_reopen_in_progress, restart_mutex, now, mpc, mainLoc, glVars,
                 workLoc, histVars>>
  /\ UNCHANGED auxVars

(* The open loop (OPEN_RETRIES attempts, OPEN_RETRY_MS apart, the lock     *)
(* held throughout).  opened: one of the attempts succeeded; otherwise the *)
(* helper returns false and lk unlocks.                                    *)
WOpen ==
  /\ wpc = "w_open"
  /\ \E opened \in BOOLEAN :
       IF opened
       THEN /\ fd' = DeviceFd
            /\ wpc' = "w_relock"
            /\ UNCHANGED restart_mutex
       ELSE /\ restart_mutex' = "free"
            /\ wpc' = "w_loop"
            /\ UNCHANGED fd
  /\ UNCHANGED <<buffers, mapped, streaming, cur_fmt, recVars, need_gl_update,
                 auto_reopen_in_progress, now, mpc, mainLoc, glVars,
                 v, verified, vrec, histVars>>
  /\ UNCHANGED auxVars

(* std::lock_guard lk2(restart_mutex) while lk of the same thread holds the *)
(* non-recursive mutex: undefined behaviour.  Either the thread blocks on   *)
(* itself for ever, or the second lock() returns and lk2's destructor       *)
(* unlocks the mutex, so that the rest of the reopen runs unlocked.         *)
WRelock ==
  /\ wpc = "w_relock"
  /\ \E blocks \in BOOLEAN, nf \in Formats :
       IF blocks
       THEN /\ wpc' = "w_deadlock"
            /\ UNCHANGED <<cur_fmt, restart_mutex>>
       ELSE /\ cur_fmt' = nf
            /\ restart_mutex' = "free"
            /\ wpc' = "w_full_alloc"
  /\ UNCHANGED <<fd, buffers, mapped, streaming, recVars, need_gl_update,
                 auto_reopen_in_progress, now, mpc, mainLoc, glVars,
                 workLoc, histVars>>
  /\ UNCHANGED auxVars

(* S_FMT, G_FMT, REQBUFS, QUERYBUF + mmap + QBUF per buffer, STREAMON of     *)
(* the full reopen; a failure unmaps, closes fd and returns false.  lk's    *)
(* destructor then unlocks a mutex this thread no longer owns: it is left   *)
(* free, or as it was.                                                      *)
WFullAlloc ==
  /\ wpc = "w_full_alloc"
  /\ \E n \in GrantCounts : \E f \in AllocFailures(n), nf \in Formats,
                               m \in {"free", restart_mutex} :
       /\ cur_fmt' = nf
       /\ restart_mutex' = m
       /\ IF f[1] = "none"
          THEN /\ buffers' = n /\ mapped' = n /\ streaming' = TRUE
               /\ RestartSucceeded
               /\ wpc' = "w_vpoll" /\ v' = 0 /\ verified' = FALSE /\ vrec' = NoVrec
               /\ recovered_at' = now
               /\ UNCHANGED fd
          ELSE /\ buffers' = 0 /\ mapped' = UnmapAll(PlanesMapped(f, n))
               /\ streaming' = FALSE /\ fd' = -1
               /\ wpc' = "w_loop"
               /\ UNCHANGED <<recVars, need_gl_update, v, verified, vrec, recovered_at>>
  /\ stream_verified' = FALSE
  /\ UNCHANGED <<auto_reopen_in_progress, now, mpc, mainLoc, glVars,
                 einval_run>>
  /\ UNCHANGED auxVars

(* Verify loop head: for (v < BG_REOPEN_VERIFY_MAX_ATTEMPTS) poll(fd, POLLIN) *)
WVPoll ==
  /\ wpc = "w_vpoll"
  /\ IF v >= BG_REOPEN_VERIFY_MAX_ATTEMPTS
     THEN /\ wpc' = "w_vdone"
          /\ UNCHANGED <<v, vrec>>
     ELSE \E pollin \in (IF fd >= 0 /\ streaming THEN BOOLEAN ELSE {FALSE}) :
          /\ vrec' = [NoVrec EXCEPT !.pollin = pollin]
          /\ IF pollin
             THEN wpc' = "w_vlock" /\ UNCHANGED v
             ELSE wpc' = "w_vpoll" /\ v' = v + 1
  /\ UNCHANGED <<capVars, recVars, need_gl_update, auto_reopen_in_progress,
                 restart_mutex, now, mpc, mainLoc, glVars, verified, histVars>>
  /\ UNCHANGED auxVars

WVLock ==
  /\ wpc = "w_vlock"
  /\ restart_mutex = "free"
  /\ restart_mutex' = "worker"
  /\ wpc' = "w_vbody"
  /\ UNCHANGED <<capVars, recVars, need_gl_update, auto_reopen_in_progress,
                 now, mpc, mainLoc, glVars, workLoc, histVars>>
  /\ UNCHANGED auxVars

(* VerifyFrame without the byte-count test: an empty frame is accepted. *)
VerifyFrame_AnyLength(dq, bytes, qbuf_ok) ==
  IF dq = "OK" THEN (IF qbuf_ok THEN TRUE ELSE FALSE) ELSE FALSE

(* The verify decision: DQBUF returned 0, planes[0].bytesused > 0 and the   *)
(* QBUF of the same buffer returned 0.                                      *)
VerifyFrame(dq, bytes, qbuf_ok) ==
  IF dq = "OK"
  THEN IF bytes > 0
       THEN (IF qbuf_ok THEN TRUE ELSE FALSE)
       ELSE FALSE
  ELSE FALSE

(* Body of one verify under restart_mutex. *)
WVBody ==
  /\ wpc = "w_vbody"
  /\ \E dq \in {"OK", "EAGAIN", "EOTHER"}, b \in 0..MaxBytes, q \in BOOLEAN :
       /\ dq # "OK" => (b = 0 /\ q = FALSE)
       /\ vrec' = IF VerifyFrame(dq, b, q)
                 THEN [vrec EXCEPT !.dq = dq, !.bytes = b, !.qbuf = q]
                 ELSE NoVrec
       /\ verified' = VerifyFrame(dq, b, q)
       /\ IF VerifyFrame(dq, b, q)
          THEN /\ last_good_frame' = now /\ last_recovered_time' = now
               /\ einval_count' = 0
               /\ stream_verified' = TRUE /\ einval_run' = 0 /\ recovered_at' = now
               /\ wpc' = "w_vdone"
               /\ UNCHANGED v
          ELSE /\ v' = v + 1
               /\ wpc' = "w_vpoll"
               /\ UNCHANGED <<last_good_frame, last_recovered_time, einval_count, histVars>>
  /\ restart_mutex' = "free"
  /\ UNCHANGED <<capVars, signal_lost, need_gl_update, auto_reopen_in_progress,
                 now, mpc, mainLoc, glVars>>
  /\ UNCHANGED auxVars

(* if (verified) { need_gl_update.store(true); break; } else retry the reopen *)
WVDone ==
  /\ wpc = "w_vdone"
  /\ IF verified
     THEN need_gl_update' = TRUE /\ wpc' = "w_exit"
     ELSE UNCHANGED need_gl_update /\ wpc' = "w_loop"
  /\ UNCHANGED <<capVars, recVars, auto_reopen_in_progress, restart_mutex,
                 now, mpc, mainLoc, glVars, workLoc, histVars>>
  /\ UNCHANGED auxVars

(* auto_reopen_in_progress.store(false); the thread ends. *)
WExit ==
  /\ wpc = "w_exit"
  /\ auto_reopen_in_progress' = FALSE
  /\ wpc' = "w_idle"
  /\ v' = 0 /\ verified' = FALSE /\ vrec' = NoVrec
  /\ UNCHANGED <<capVars, recVars, need_gl_update, restart_mutex, now, mpc,
                 mainLoc, glVars, histVars>>
  /\ UNCHANGED auxVars

----------------------------------------------------------------------------
Next ==
  \/ Tick
  \/ MStartup \/ MPoll \/ MGlCheck \/ MGlLock \/ MGlBody \/ MDq \/ MUpload \/ MRequeue
  \/ MEvent \/ MEvLock \/ MEvBody \/ MTimeout \/ MRender \/ MUi \/ MShutdown
  \/ WLoop \/ WMrLock \/ WSoftOff \/ WSoftAlloc \/ WClose \/ WOpen \/ WRelock
  \/ WFullAlloc \/ WVPoll \/ WVLock \/ WVBody \/ WVDone \/ WExit

Spec == Init /\ [][Next]_vars

----------------------------------------------------------------------------
(* Snapshots (key 's'): the life of the frame bytes.  The capture buffer   *)
(* is driver-owned memory mapped into the process; main copies each        *)
(* uploaded frame into lastY/lastUV/lastPacked; a snapshot thread gets     *)
(* vectors of its own.  The recovery state does not take part.             *)

snapRest == <<capVars, recVars, need_gl_update, restart_mutex, now, mpc, mainLoc,
              glVars, startVars, workLoc, histVars, offVars, mapVars, uiVars, poolVars, backoffVars>>

(* The buffers are mapped (startup allocation, restart_v4l_stream, full    *)
(* reopen) and the driver fills the first one.                             *)
SnapMap ==
  /\ live_frame = 0
  /\ live_frame' \in 1..MaxFrame
  /\ UNCHANGED <<lastY, snap, snapRest>>

(* Upload of a dequeued frame: memcpy(lastY.data(), ybase, ylen) and       *)
(* last_width = cur_width.                                                 *)
SnapUploadCopy ==
  /\ live_frame # 0
  /\ lastY' = live_frame
  /\ UNCHANGED <<live_frame, snap, snapRest>>

(* The buffer was requeued (VIDIOC_QBUF) and the driver writes the next    *)
(* frame into it.                                                          *)
SnapDriverFill ==
  /\ live_frame # 0
  /\ live_frame' \in (1..MaxFrame) \ {live_frame}
  /\ UNCHANGED <<lastY, snap, snapRest>>

(* STREAMOFF, munmap of every plane, buffers.clear() of a restart. *)
SnapUnmap ==
  /\ live_frame # 0
  /\ live_frame' = 0
  /\ UNCHANGED <<lastY, snap, snapRest>>

(* What key 's' hands to the thread, had it handed over the address of the *)
(* mapped buffer instead of a copy.                                        *)
SnapshotArg_Live == [src |-> "live", ybuf |-> lastY]

(* What key 's' hands to the thread: copyY = lastY; std::thread(..,        *)
(* std::move(copyY), ..): a vector the thread owns, holding the bytes of   *)
(* lastY at this moment.                                                   *)
SnapshotArg == [src |-> "own", ybuf |-> lastY]

(* Key 's': if (last_width > 0 && last_height > 0) start the thread, detach. *)
SnapKeyS ==
  /\ lastY # 0
  /\ snap.pc = "idle"
  /\ snap' = [pc |-> "running", src |-> SnapshotArg.src, ybuf |-> SnapshotArg.ybuf,
              req |-> lastY, seen |-> 0]
  /\ UNCHANGED <<live_frame, lastY, snapRest>>

(* The bytes a read of ybuf[yi] in async_save_frame_to_png returns. *)
SnapshotBytes == IF snap.src = "own" THEN snap.ybuf ELSE live_frame

(* async_save_frame_to_png converts a row: it reads its ybuf. *)
SnapRead ==
  /\ snap.pc = "running"
  /\ snap' = [snap EXCEPT !.seen = SnapshotBytes]
  /\ UNCHANGED <<live_frame, lastY, snapRest>>

(* stbi_write_png, the thread returns. *)
SnapDone ==
  /\ snap.pc = "running"
  /\ snap.seen # 0
  /\ snap' = NoSnap
  /\ UNCHANGED <<live_frame, lastY, snapRest>>

SnapNext ==
  \/ SnapMap \/ SnapUploadCopy \/ SnapDriverFill \/ SnapUnmap
  \/ SnapKeyS \/ SnapRead \/ SnapDone

SnapSpec == Init /\ [][SnapNext]_vars

----------------------------------------------------------------------------
(* Per-tile offsets: loadOffsetsFromModuleFiles and parseXYLine.  A line   *)
(* is the sequence of its whitespace-separated tokens; a token is an       *)
(* integer, a word that is no integer, or a word that starts with '#'.     *)

Num(n) == [k |-> "int", v |-> n]
Word == [k |-> "word", v |-> 0]
Hash == [k |-> "hash", v |-> 0]

(* parseXYLine: trim; empty -> false; s[0] == '#' -> false;                *)
(* iss >> x >> y must both succeed; what follows y is not looked at.       *)
parseXYLine(line) ==
  IF Len(line) = 0 THEN [ok |-> FALSE, x |-> 0, y |-> 0]
  ELSE IF line[1].k = "hash" THEN [ok |-> FALSE, x |-> 0, y |-> 0]
  ELSE IF line[1].k # "int" THEN [ok |-> FALSE, x |-> 0, y |-> 0]
  ELSE IF Len(line) < 2 THEN [ok |-> FALSE, x |-> line[1].v, y |-> 0]
  ELSE IF line[2].k # "int" THEN [ok |-> FALSE, x |-> line[1].v, y |-> 0]
  ELSE [ok |-> TRUE, x |-> line[1].v, y |-> line[2].v]

(* out.assign(150 * 2, 0), one entry short. *)
InitialTable_Short == <<>> \o [i \in 1 .. (TABLE_ENTRIES - 1) * 2 |-> 0]

(* out.assign(150 * 2, 0): a vector of 300 zeros *)
InitialTable == <<>> \o [i \in 1 .. TABLE_ENTRIES * 2 |-> 0]

(* The body of the fill loop, with a line that does not parse taking up a  *)
(* slot.                                                                   *)
FillStep_NoSkip(r, out, fillIndex) ==
  IF ~r.ok
  THEN [out |-> out, fillIndex |-> fillIndex + 2]
  ELSE [out |-> [out EXCEPT ![fillIndex + 1] = r.x, ![fillIndex + 2] = r.y],
        fillIndex |-> fillIndex + 2]

(* The body of the fill loop for one line with parse result r:             *)
(* if (!parseXYLine(..)) continue; out[fillIndex++] = x; out[fillIndex++] = y; *)
FillStep(r, out, fillIndex) ==
  IF ~r.ok
  THEN [out |-> out, fillIndex |-> fillIndex]
  ELSE [out |-> [out EXCEPT ![fillIndex + 1] = r.x, ![fillIndex + 2] = r.y],
        fillIndex |-> fillIndex + 2]

(* One turn of while (std::getline(f, line) && fillIndex < out.size()):     *)
(* once the table is full the loop is left, and no later line is stored.   *)
FillLine(line, st) ==
  IF ~(st.fillIndex < Len(st.out)) THEN st
  ELSE FillStep(parseXYLine(line), st.out, st.fillIndex)

(* The fill loop over lines lo..hi of a file, in file order (the range is   *)
(* halved to keep the evaluation shallow; the lines are still taken one by *)
(* one from first to last).                                                *)
RECURSIVE FillRange(_, _, _, _)
FillRange(lines, lo, hi, st) ==
  IF lo > hi THEN st
  ELSE IF lo = hi THEN FillLine(lines[lo], st)
  ELSE LET mid == (lo + hi) \div 2
           first == FillRange(lines, lo, mid, st)
       IN  IF ~(first.fillIndex < Len(first.out)) THEN first
           ELSE FillRange(lines, mid + 1, hi, first)

FillFromFile(lines, out, fillIndex) ==
  FillRange(lines, 1, Len(lines), [out |-> out, fillIndex |-> fillIndex])

(* for (m = 0; m < names.size(); ++m): the first candidate path that       *)
(* exists is read; a module with no file is passed over.  fillIndex runs   *)
(* on from one module to the next.                                         *)
RECURSIVE LoadModules(_, _, _, _)
LoadModules(files, m, out, fillIndex) ==
  IF m > Len(files) THEN out
  ELSE IF ~files[m].found THEN LoadModules(files, m + 1, out, fillIndex)
  ELSE LET st == FillFromFile(files[m].lines, out, fillIndex)
       IN  LoadModules(files, m + 1, st.out, st.fillIndex)

loadOffsetsFromModuleFiles(files) == LoadModules(files, 1, InitialTable, 0)

(* Module files *)
File(lines) == [found |-> TRUE, lines |-> lines]
ExampleFile == File(<< <<Num(-3), Num(5)>>, <<Num(0), Num(0)>>, <<Num(2), Num(-1)>> >>)
MessyFile ==
  File(<< <<Hash, Num(1), Num(1)>>, <<Num(-3), Num(5)>>, <<>>, <<Word, Num(4)>>,
          <<Num(0), Num(0)>>, <<Num(7)>>, <<Num(8), Word>>, <<Num(2), Num(-1)>> >>)
NumberedFile(n) == File([i \in 1 .. n |-> <<Num(i), Num(0 - i)>>])
FileSet ==
  {Missing, File(<<>>), ExampleFile, MessyFile, NumberedFile(PER_MODULE + 1),
   NumberedFile(LongFileLines)}

offRest == <<capVars, recVars, need_gl_update, restart_mutex, now, mpc, mainLoc,
             glVars, startVars, workLoc, histVars, snapVars, mapVars, uiVars, poolVars, backoffVars>>

(* Startup: if (loadOffsetsFromModuleFiles(modFiles, offsetData)) upload. *)
OffLoadInitial ==
  /\ offsetData = <<>>
  /\ \E f1 \in FileSet, f2 \in FileSet, f3 \in FileSet :
       /\ modFiles' = <<f1, f2, f3>>
       /\ offsetData' = loadOffsetsFromModuleFiles(<<f1, f2, f3>>)
  /\ UNCHANGED offRest

(* Key 'k', one module file having changed on disk since the last load:    *)
(* loadOffsetsFromModuleFiles(modFiles, newOffsets); if the table is       *)
(* complete it is uploaded and offsetData.swap(newOffsets).                *)
OffReload ==
  /\ offsetData # <<>>
  /\ \E m \in 1 .. 3, f \in FileSet :
       LET files == [modFiles EXCEPT ![m] = f]
           newOffsets == loadOffsetsFromModuleFiles(files)
       IN  /\ modFiles' = files
           /\ offsetData' = IF Len(newOffsets) >= TABLE_ENTRIES * 2
                            THEN newOffsets ELSE offsetData
  /\ UNCHANGED offRest

OffNext == OffLoadInitial \/ OffReload

OffInit == Init /\ cur_fmt = 1

OffSpec == OffInit /\ [][OffNext]_vars

----------------------------------------------------------------------------
(* Tile Grid Mapper: the fragment shader shader.frag.glsl.  Lengths in     *)
(* output and source pixels are written in half pixels (a pixel centre     *)
(* gl_FragCoord = x + 0.5 is the integer 2x + 1); a sample coordinate is   *)
(* a fraction of the unit square written as x/one, y/one with one the     *)
(* common denominator 2 * width * height of the source canvas.            *)

Min(a, b) == IF a < b THEN a ELSE b
Max(a, b) == IF a > b THEN a ELSE b

(* clamp that returns x whatever the limits. *)
clamp_Unbounded(x, minVal, maxVal) == x

(* GLSL clamp(x, minVal, maxVal) = min(max(x, minVal), maxVal) *)
clamp(x, minVal, maxVal) == Min(Max(x, minVal), maxVal)

(* int(a / b) for b > 0: the conversion drops the fraction, towards zero. *)
Trunc(a, b) == IF a >= 0 THEN a \div b ELSE 0 - ((0 - a) \div b)

(* rotate90_centered without the return to the centre: return r. *)
rotate90_off_centre(uv, k) ==
  LET c == uv.one \div 2
      px == uv.x - c
      py == uv.y - c
      kk == k % 4
      r == CASE kk = 0 -> <<px, py>>
             [] kk = 1 -> <<py, 0 - px>>
             [] kk = 2 -> <<0 - px, 0 - py>>
             [] OTHER  -> <<0 - py, px>>
  IN  [x |-> r[1], y |-> r[2], one |-> uv.one]

(* rotate90_centered(uv, k): p = uv - c; rotate p by (k & 3) quarter turns  *)
(* clockwise; return r + c.                                                *)
rotate90_centered(uv, k) ==
  LET c == uv.one \div 2
      px == uv.x - c
      py == uv.y - c
      kk == k % 4
      r == CASE kk = 0 -> <<px, py>>
             [] kk = 1 -> <<py, 0 - px>>
             [] kk = 2 -> <<0 - px, 0 - py>>
             [] OTHER  -> <<0 - py, px>>
  IN  [x |-> r[1] + c, y |-> r[2] + c, one |-> uv.one]

(* The flips with the horizontal one reading the other component. *)
FlipUV_Crossed(uv, flip_x, flip_y) ==
  LET x1 == IF flip_x = 1 THEN uv.one - uv.y ELSE uv.x
      y1 == IF flip_y = 1 THEN uv.one - uv.y ELSE uv.y
  IN  [x |-> x1, y |-> y1, one |-> uv.one]

(* if (flip_x == 1) uvTrans.x = 1.0 - uvTrans.x;                           *)
(* if (flip_y == 1) uvTrans.y = 1.0 - uvTrans.y;                           *)
FlipUV(uv, flip_x, flip_y) ==
  LET x1 == IF flip_x = 1 THEN uv.one - uv.x ELSE uv.x
      y1 == IF flip_y = 1 THEN uv.one - uv.y ELSE uv.y
  IN  [x |-> x1, y |-> y1, one |-> uv.one]

(* isGapZero looking at every entry of gap_rows, gap_count ignored. *)
isGapZero_AllEntries(u, gapIdx) ==
  \E i \in 0 .. GAP_ARRAY_SIZE - 1 : u.gap_rows[i + 1] = gapIdx

(* isGapZero: gapIdx is among the first gap_count (at most 8) gap_rows. *)
isGapZero(u, gapIdx) ==
  \E i \in 0 .. GAP_ARRAY_SIZE - 1 : i < u.gap_count /\ u.gap_rows[i + 1] = gapIdx

(* The loop of computeTotalGridHeight from row r on, h so far. *)
RECURSIVE GridHeightLoop(_, _, _, _, _, _)
GridHeightLoop(u, r, numRows, tileH, spacingY, h) ==
  IF ~(r < numRows) THEN h
  ELSE LET h1 == h + tileH
           h2 == IF r < numRows - 1 /\ ~isGapZero(u, r + 1) THEN h1 + spacingY ELSE h1
       IN  GridHeightLoop(u, r + 1, numRows, tileH, spacingY, h2)

(* The height loop with the spacing added after every row but the last. *)
computeTotalGridHeight_NoGaps(u, numRows, tileH, spacingY) ==
  IF numRows <= 0 THEN 0 ELSE numRows * tileH + (numRows - 1) * spacingY

computeTotalGridHeight(u, numRows, tileH, spacingY) ==
  GridHeightLoop(u, 0, numRows, tileH, spacingY, 0)

(* The row search of main: the first row r whose band                      *)
(* [rowStart, rowStart + tileH) holds yFromTop, or -1.                     *)
RECURSIVE RowLoop(_, _, _, _)
RowLoop(u, r, yAccTop, yFromTop) ==
  IF ~(r < u.u_numTilesPerCol) THEN -1
  ELSE LET rowStart == yAccTop
           rowEnd == rowStart + 2 * u.u_tileH
       IN  IF yFromTop >= rowStart /\ yFromTop < rowEnd THEN r
           ELSE RowLoop(u, r + 1,
                        IF ~isGapZero(u, r + 1) THEN rowEnd + 2 * u.u_spacingY ELSE rowEnd,
                        yFromTop)

(* tileStartY_top: the heights and spacings of the rows above tileRow. *)
RECURSIVE TileStartTopLoop(_, _, _, _)
TileStartTopLoop(u, r, tileRow, acc) ==
  IF ~(r < tileRow) THEN acc
  ELSE TileStartTopLoop(u, r + 1, tileRow,
                        IF ~isGapZero(u, r + 1)
                        THEN acc + 2 * u.u_tileH + 2 * u.u_spacingY
                        ELSE acc + 2 * u.u_tileH)

(* offsetxy1[globalIndex] as the shader reads it *)
offsetxy1(u, globalIndex) ==
  IF 2 * globalIndex + 2 <= Len(u.offsetxy1)
  THEN <<u.offsetxy1[2 * globalIndex + 1], u.offsetxy1[2 * globalIndex + 2]>>
  ELSE <<0, 0>>

(* The tile rectangle without the per-tile offset. *)
tileRectStart_NoOffset(tileStart, off) == tileStart

(* tileRectStart = vec2(tileStartX, tileStartY) + vec2(off.x, off.y) *)
tileRectStart(tileStart, off) ==
  <<tileStart[1] + 2 * off[1], tileStart[2] + 2 * off[2]>>

(* The source row taken to be the tile row whatever the order. *)
SourceTileRow_Same(u, tileRow) == tileRow

(* sourceTileRow: the tile row, or counted from the other end when the    *)
(* input tiles are not ordered top to bottom.                              *)
SourceTileRow(u, tileRow) ==
  IF u.inputTilesTopToBottom = 1 THEN tileRow ELSE (u.u_numTilesPerCol - 1) - tileRow

(* The transform with the flips applied before the rotation. *)
SampleTransform_FlipFirst(u, uv) ==
  LET flipped == FlipUV(uv, u.flip_x, u.flip_y)
      rotated == rotate90_centered(flipped, u.rot)
  IN  [x |-> clamp(rotated.x, 0, rotated.one),
       y |-> clamp(rotated.y, 0, rotated.one), one |-> rotated.one]

(* uvTrans: the rotation of the input coordinate, then the two flips,     *)
(* then the clamp to the unit square.                                      *)
SampleTransform(u, uv) ==
  LET rotated == rotate90_centered(uv, u.rot)
      flipped == FlipUV(rotated, u.flip_x, u.flip_y)
  IN  [x |-> clamp(flipped.x, 0, flipped.one),
       y |-> clamp(flipped.y, 0, flipped.one), one |-> flipped.one]

(* What main writes for a fragment that is not sampled. *)
Background(px, why, tileCol, tileRow, totalGridH, rect, off) ==
  [state |-> "background", reject |-> why, px |-> px, tileCol |-> tileCol,
   tileRow |-> tileRow, totalGridH |-> totalGridH, rectStart |-> rect, off |-> off,
   pxInTile |-> <<0, 0>>, sourceTileRow |-> 0, inputCoord |-> <<0, 0>>,
   uvIn |-> [x |-> 0, y |-> 0, one |-> 0], uvTrans |-> [x |-> 0, y |-> 0, one |-> 0]]

(* main() of the shader for the fragment at window pixel px, up to the     *)
(* texture coordinate it samples.                                          *)
FragMain(u, px) ==
  LET outPx == <<2 * px[1] + 1, 2 * px[2] + 1>>
      segIdx == clamp(u.segmentIndex, 1, MAX_SEGMENT) - 1
      segCol == segIdx % u.u_segmentsX
      segRow == segIdx \div u.u_segmentsX
      subBlockOrigin == <<2 * segCol * u.u_subBlockSize[1], 2 * segRow * u.u_subBlockSize[2]>>
      tileCol == Trunc(outPx[1] - 2 * u.u_marginX, 2 * (u.u_tileW + u.u_spacingX))
      totalGridH == computeTotalGridHeight(u, u.u_numTilesPerCol, 2 * u.u_tileH, 2 * u.u_spacingY)
      yFromTop == totalGridH - outPx[2]
      tileRow == RowLoop(u, 0, 0, yFromTop)
  IN  IF tileCol < 0 \/ tileCol >= u.u_numTilesPerRow \/ tileRow < 0 \/ tileRow >= u.u_numTilesPerCol
      THEN Background(px, "quick", tileCol, tileRow, totalGridH, <<0, 0>>, <<0, 0>>)
      ELSE
      LET tileStartX == 2 * u.u_marginX + tileCol * 2 * (u.u_tileW + u.u_spacingX)
          tileStartY_top == TileStartTopLoop(u, 0, tileRow, 0)
          tileStartY == totalGridH - (tileStartY_top + 2 * u.u_tileH)
          tileIndexWithinSubblock == tileRow * u.u_numTilesPerRow + tileCol
          globalIndex == clamp(tileIndexWithinSubblock, 0, TABLE_ENTRIES - 1)
          off == offsetxy1(u, globalIndex)
          rs == tileRectStart(<<tileStartX, tileStartY>>, off)
          re == <<rs[1] + 2 * u.u_tileW, rs[2] + 2 * u.u_tileH>>
      IN  IF ~(outPx[1] >= rs[1] /\ outPx[1] < re[1] /\ outPx[2] >= rs[2] /\ outPx[2] < re[2])
          THEN Background(px, "rect", tileCol, tileRow, totalGridH, rs, off)
          ELSE
          LET pxInTileX == outPx[1] - rs[1]
              pxInTileY == outPx[2] - rs[2]
              sourceTileRow == SourceTileRow(u, tileRow)
              fetchX == 2 * u.u_tileW * tileCol + pxInTileX
              fetchY == 2 * u.u_tileH * sourceTileRow + pxInTileY
              W == u.u_fullInputSize[1]
              H == u.u_fullInputSize[2]
              inputCoord == <<clamp(subBlockOrigin[1] + fetchX, 0, 2 * (W - 1)),
                              clamp(subBlockOrigin[2] + fetchY, 0, 2 * (H - 1))>>
              inputUVCoord == [x |-> inputCoord[1] * H, y |-> inputCoord[2] * W, one |-> 2 * W * H]
              uvTrans == SampleTransform(u, inputUVCoord)
          IN  [state |-> "sampled", reject |-> "none", px |-> px, tileCol |-> tileCol,
               tileRow |-> tileRow, totalGridH |-> totalGridH, rectStart |-> rs, off |-> off,
               pxInTile |-> <<pxInTileX, pxInTileY>>, sourceTileRow |-> sourceTileRow,
               inputCoord |-> inputCoord, uvIn |-> inputUVCoord, uvTrans |-> uvTrans]

(* Uniform values the host can set *)
SmallGrid ==
  [u_fullInputSize |-> <<8, 12>>, u_segmentsX |-> 2, u_segmentsY |-> 1,
   u_subBlockSize |-> <<4, 12>>, u_tileW |-> 3, u_tileH |-> 3, u_spacingX |-> 1,
   u_spacingY |-> 2, u_marginX |-> 1, u_numTilesPerRow |-> 2]
ExampleGrid ==
  [u_fullInputSize |-> <<200, 400>>, u_segmentsX |-> 1, u_segmentsY |-> 1,
   u_subBlockSize |-> <<200, 400>>, u_tileW |-> 50, u_tileH |-> 100, u_spacingX |-> 10,
   u_spacingY |-> 100, u_marginX |-> 100, u_numTilesPerRow |-> 2]
(* A grid of 10 tiles per row, two pixels wide and one high, no spacing:  *)
(* with 16 rows it has 160 tiles, more than the offset table has slots.   *)
BigGrid ==
  [u_fullInputSize |-> <<20, 20>>, u_segmentsX |-> 1, u_segmentsY |-> 1,
   u_subBlockSize |-> <<20, 20>>, u_tileW |-> 2, u_tileH |-> 1, u_spacingX |-> 0,
   u_spacingY |-> 0, u_marginX |-> 0, u_numTilesPerRow |-> 10]

DefaultGaps == <<5, 10, 0, 0, 0, 0, 0, 0>>
GapArrays == {DefaultGaps, <<1, 2, 3, 4, 5, 6, 7, 8>>, <<2, 2, 4, 0, 0, 0, 0, 0>>}

SmallOffsets ==
  <<>> \o [i \in 1 .. 2 * TABLE_ENTRIES |->
             CASE i = 1 -> -1 [] i = 2 -> 1 [] i = 3 -> 1 [] i = 6 -> -1
               [] i = 7 -> 2 [] i = 8 -> 2 [] OTHER -> 0]
(* A table whose last slot (149) holds (1, 0), slot 0 holds (0, 1). *)
BigOffsets ==
  <<>> \o [i \in 1 .. 2 * TABLE_ENTRIES |->
             CASE i = 2 -> 1 [] i = 2 * TABLE_ENTRIES - 1 -> 1 [] OTHER -> 0]
ExampleOffsets == loadOffsetsFromModuleFiles(<<ExampleFile, Missing, Missing>>)

Uniforms(g, n, gc, gaps, rot, fx, fy, ttb, seg, offs) ==
  [segmentIndex |-> seg, u_fullInputSize |-> g.u_fullInputSize,
   u_segmentsX |-> g.u_segmentsX, u_segmentsY |-> g.u_segmentsY,
   u_subBlockSize |-> g.u_subBlockSize, u_tileW |-> g.u_tileW, u_tileH |-> g.u_tileH,
   u_spacingX |-> g.u_spacingX, u_spacingY |-> g.u_spacingY, u_marginX |-> g.u_marginX,
   u_numTilesPerRow |-> g.u_numTilesPerRow, u_numTilesPerCol |-> n,
   offsetxy1 |-> offs, rot |-> rot, flip_x |-> fx, flip_y |-> fy, gap_count |-> gc,
   gap_rows |-> gaps, inputTilesTopToBottom |-> ttb, full_range |-> 0, use_bt709 |-> 1]

GapUniforms ==
  {Uniforms(SmallGrid, n, gc, gaps, 0, 0, 1, 1, 1, SmallOffsets) :
     n \in 1 .. MaxRows, gc \in 0 .. GAP_ARRAY_SIZE, gaps \in GapArrays}
TransformUniforms ==
  {Uniforms(SmallGrid, 3, 2, <<2, 2, 4, 0, 0, 0, 0, 0>>, t[1], t[2], t[3], t[4], t[5], SmallOffsets) :
     t \in (0 .. 3) \X (0 .. 1) \X (0 .. 1) \X (0 .. 1) \X (1 .. 2)}
ExampleUniforms == Uniforms(ExampleGrid, 2, 0, DefaultGaps, 0, 0, 1, 1, 1, ExampleOffsets)
BigUniforms == Uniforms(BigGrid, MaxRows, 0, DefaultGaps, 0, 0, 1, 1, 1, BigOffsets)
UniformSet == GapUniforms \cup TransformUniforms \cup {ExampleUniforms, BigUniforms}

(* Fragments: the lower left corner of the window, and the pixels around   *)
(* the corners of the first tiles of the example grid.                     *)
ExamplePixels == {96, 97, 98, 146, 147, 159, 160} \X {204, 205, 206, 304, 305}
Pixels == ((0 .. MaxPx) \X (0 .. MaxPy)) \cup ExamplePixels

mapRest == <<capVars, recVars, need_gl_update, restart_mutex, now, mpc, mainLoc,
             glVars, startVars, workLoc, histVars, snapVars, offVars, uiVars, poolVars, backoffVars>>

(* glUniform* after the program was linked: the host sets the uniforms. *)
MapSetUniforms ==
  /\ uniforms = ZeroUniforms
  /\ uniforms' \in UniformSet
  /\ UNCHANGED <<frag, mapRest>>

(* glDrawArrays: the shader runs for one fragment of the window. *)
MapFragment ==
  /\ uniforms # ZeroUniforms
  /\ frag = NoFrag
  /\ \E px \in Pixels : frag' = FragMain(uniforms, px)
  /\ UNCHANGED <<uniforms, mapRest>>

MapNext == MapSetUniforms \/ MapFragment

MapInit == Init /\ cur_fmt = 1

MapSpec == MapInit /\ [][MapNext]_vars

----------------------------------------------------------------------------
(* Render Bridge: main's render parameters (ctrl, rotation, flips, active  *)
(* segment, gaps, decode options), their push into the uniforms at set-up, *)
(* in every frame and in the key handlers.                                 *)

(* ControlParams: the defaults of the struct, and two control_ini.txt files. *)
DefaultCtrl ==
  [fullInputW |-> 3840, fullInputH |-> 2160, segmentsX |-> 3, segmentsY |-> 3,
   subBlockW |-> 1280, subBlockH |-> 720, tileW |-> 128, tileH |-> 144,
   spacingX |-> 98, spacingY |-> 90, marginX |-> 0, numTilesPerRow |-> 10,
   numTilesPerCol |-> 15, inputTilesTopToBottom |-> 1]
TwoSegmentCtrl ==
  [fullInputW |-> 8, fullInputH |-> 12, segmentsX |-> 2, segmentsY |-> 1,
   subBlockW |-> 4, subBlockH |-> 12, tileW |-> 3, tileH |-> 3,
   spacingX |-> 1, spacingY |-> 2, marginX |-> 1, numTilesPerRow |-> 2,
   numTilesPerCol |-> 3, inputTilesTopToBottom |-> 0]
OneSegmentCtrl ==
  [fullInputW |-> 200, fullInputH |-> 400, segmentsX |-> 1, segmentsY |-> 1,
   subBlockW |-> 200, subBlockH |-> 400, tileW |-> 50, tileH |-> 100,
   spacingX |-> 10, spacingY |-> 100, marginX |-> 100, numTilesPerRow |-> 2,
   numTilesPerCol |-> 2, inputTilesTopToBottom |-> 1]
CtrlSet == {DefaultCtrl, TwoSegmentCtrl, OneSegmentCtrl}

(* The module files a reload can find. *)
UiFileSet == {Missing, ExampleFile}

(* The glUniform* calls that carry ctrl (set-up, every frame, key 'k'). *)
PushCtrl(u, ctrl) ==
  [u EXCEPT !.u_fullInputSize = <<ctrl.fullInputW, ctrl.fullInputH>>,
            !.u_segmentsX = ctrl.segmentsX, !.u_segmentsY = ctrl.segmentsY,
            !.u_subBlockSize = <<ctrl.subBlockW, ctrl.subBlockH>>,
            !.u_tileW = ctrl.tileW, !.u_tileH = ctrl.tileH,
            !.u_spacingX = ctrl.spacingX, !.u_spacingY = ctrl.spacingY,
            !.u_marginX = ctrl.marginX, !.u_numTilesPerRow = ctrl.numTilesPerRow,
            !.u_numTilesPerCol = ctrl.numTilesPerCol,
            !.inputTilesTopToBottom = ctrl.inputTilesTopToBottom]

(* segToSet = min(max(1, activeSegment), max(1, segmentsX * segmentsY)) *)
segToSet(h) ==
  Min(Max(1, h.activeSegment), Max(1, h.ctrl.segmentsX * h.ctrl.segmentsY))

(* The per-frame push with the segment index left as it was last set. *)
RenderPush_SegmentCached(h, u) ==
  [PushCtrl(u, h.ctrl) EXCEPT
     !.rot = h.rotation, !.flip_x = h.flip_x, !.flip_y = h.flip_y,
     !.gap_count = h.gap_count, !.gap_rows = h.gap_rows_arr,
     !.use_bt709 = h.opt_use_bt709, !.full_range = h.opt_full_range]

(* Render: the uniforms main sets before glDrawArrays in every frame:      *)
(* rot, flips, gaps, ctrl, decode options, clamped segment index.          *)
RenderPush(h, u) ==
  [PushCtrl(u, h.ctrl) EXCEPT
     !.rot = h.rotation, !.flip_x = h.flip_x, !.flip_y = h.flip_y,
     !.gap_count = h.gap_count, !.gap_rows = h.gap_rows_arr,
     !.use_bt709 = h.opt_use_bt709, !.full_range = h.opt_full_range,
     !.segmentIndex = segToSet(h)]

uiRest == <<recVars, need_gl_update, restart_mutex, now, mainLoc,
            glVars, startVars, workLoc, histVars, snapVars, frag, poolVars, backoffVars>>

(* Set-up before the main loop: options, ctrl (control_ini.txt or the      *)
(* defaults), the offsets, flip_x = 0, flip_y = 1, rotation = 0,           *)
(* activeSegment = 1, gap_count = 2, gap_rows_arr = {5,10,0..}; each is    *)
(* sent to the program.                                                    *)
UiSetup ==
  /\ mpc = "m_poll"
  /\ host = NoHost
  /\ \E found \in BOOLEAN, c \in CtrlSet, bt \in 0 .. 1, fr \in 0 .. 1,
        f1 \in UiFileSet, f2 \in UiFileSet :
       LET h == [state |-> "set", ctrl |-> IF found THEN c ELSE DefaultCtrl,
                 rotation |-> 0, flip_x |-> 0, flip_y |-> 1, activeSegment |-> 1,
                 gap_count |-> 2, gap_rows_arr |-> DefaultGaps,
                 opt_use_bt709 |-> bt, opt_full_range |-> fr]
           table == loadOffsetsFromModuleFiles(<<f1, f2, Missing>>)
       IN  /\ host' = h
           /\ modFiles' = <<f1, f2, Missing>>
           /\ offsetData' = table
           /\ uniforms' = [RenderPush(h, uniforms) EXCEPT
                             !.segmentIndex = h.activeSegment,
                             !.offsetxy1 = IF Len(table) >= TABLE_ENTRIES * 2
                                           THEN table ELSE uniforms.offsetxy1]
  /\ UNCHANGED <<capVars, uiRest, mpc>>

(* An iteration of the main loop up to the render in which nothing         *)
(* arrives: poll times out, DQBUF has no frame (EAGAIN), no event, no      *)
(* timeout.                                                                *)
UiIdleIteration ==
  /\ mpc = "m_poll"
  /\ host # NoHost
  /\ mpc' = "m_render"
  /\ UNCHANGED <<capVars, uiRest, host, offVars, uniforms>>

(* Render of one frame: the per-frame uniforms, then glDrawArrays. *)
UiRender ==
  /\ mpc = "m_render"
  /\ host # NoHost
  /\ uniforms' = RenderPush(host, uniforms)
  /\ mpc' = "m_ui"
  /\ UNCHANGED <<capVars, uiRest, host, offVars>>

(* SDL_PollEvent has no more events: ++frame_count, next iteration. *)
UiEventsDone ==
  /\ mpc = "m_ui"
  /\ host # NoHost
  /\ mpc' = "m_poll"
  /\ UNCHANGED <<capVars, uiRest, host, offVars, uniforms>>

(* Key 'k', had the reload also torn down the buffer pool. *)
ReloadCapture_Restart ==
  /\ buffers' = 0 /\ mapped' = 0 /\ streaming' = FALSE
  /\ UNCHANGED <<fd, cur_fmt>>

(* What the reload does to the capture side: no call touches fd, buffers   *)
(* or the format.                                                          *)
ReloadCapture == UNCHANGED capVars

(* Key 'k': if loadControlIni succeeds, ctrl = newCtrl and its uniforms,   *)
(* modFiles rebuilt, the offsets loaded again, uploaded and swapped in.    *)
UiKeyK ==
  /\ mpc = "m_ui"
  /\ host # NoHost
  /\ \E found \in BOOLEAN, c \in CtrlSet, m \in 1 .. 2, f \in UiFileSet :
       IF found
       THEN LET files == [modFiles EXCEPT ![m] = f]
                newOffsets == loadOffsetsFromModuleFiles(files)
                complete == Len(newOffsets) >= TABLE_ENTRIES * 2
            IN  /\ host' = [host EXCEPT !.ctrl = c]
                /\ modFiles' = files
                /\ offsetData' = IF complete THEN newOffsets ELSE offsetData
                /\ uniforms' = [PushCtrl(uniforms, c) EXCEPT
                                  !.offsetxy1 = IF complete THEN newOffsets ELSE @]
       ELSE UNCHANGED <<host, offVars, uniforms>>
  /\ ReloadCapture
  /\ UNCHANGED <<uiRest, mpc>>

(* Key 'h': flip_x = !flip_x; glUniform1i(loc_flip_x, flip_x) *)
UiKeyH ==
  /\ mpc = "m_ui"
  /\ host # NoHost
  /\ host' = [host EXCEPT !.flip_x = 1 - @]
  /\ uniforms' = [uniforms EXCEPT !.flip_x = 1 - host.flip_x]
  /\ UNCHANGED <<capVars, uiRest, mpc, offVars>>

(* Key 'v': flip_y = !flip_y; glUniform1i(loc_flip_y, flip_y) *)
UiKeyV ==
  /\ mpc = "m_ui"
  /\ host # NoHost
  /\ host' = [host EXCEPT !.flip_y = 1 - @]
  /\ uniforms' = [uniforms EXCEPT !.flip_y = 1 - host.flip_y]
  /\ UNCHANGED <<capVars, uiRest, mpc, offVars>>

(* Key 'r': rotation = (rotation + 2) & 3; glUniform1i(loc_rot, rotation) *)
UiKeyR ==
  /\ mpc = "m_ui"
  /\ host # NoHost
  /\ host' = [host EXCEPT !.rotation = (@ + 2) % 4]
  /\ uniforms' = [uniforms EXCEPT !.rot = (host.rotation + 2) % 4]
  /\ UNCHANGED <<capVars, uiRest, mpc, offVars>>

(* Keys '1', '2', '3': the segment is taken if the segment grid has it. *)
UiKeySegment ==
  /\ mpc = "m_ui"
  /\ host # NoHost
  /\ \E requested \in 1 .. 3 :
       IF requested <= Max(1, host.ctrl.segmentsX * host.ctrl.segmentsY)
       THEN /\ host' = [host EXCEPT !.activeSegment = requested]
            /\ uniforms' = [uniforms EXCEPT !.segmentIndex = requested]
       ELSE UNCHANGED <<host, uniforms>>
  /\ UNCHANGED <<capVars, uiRest, mpc, offVars>>

UiNext ==
  \/ MStartup \/ UiSetup \/ UiIdleIteration \/ UiRender \/ UiEventsDone
  \/ UiKeyK \/ UiKeyH \/ UiKeyV \/ UiKeyR \/ UiKeySegment

UiInit == Init /\ cur_fmt = 1

UiSpec == UiInit /\ [][UiNext]_vars

----------------------------------------------------------------------------
(* Buffer ownership and the poll target: which buffers of the current pool *)
(* the application holds between VIDIOC_DQBUF and VIDIOC_QBUF, in the main *)
(* loop and in the worker's verify loop, and the descriptor main polls.    *)
(* manual_restart_v4l_only is one step here; the recovery flags other than *)
(* auto_reopen_in_progress do not take part.                               *)

(* The descriptors open(DEVICE) can return: the lowest free one, which is  *)
(* the old number again or the next one if that was taken meanwhile.       *)
OpenFds == {DeviceFd, DeviceFd + 1}

(* Buffers of the current pool that are queued in the driver. *)
Queued == (1 .. buffers) \ pool.owned

poolRest == <<recVars, need_gl_update, restart_mutex, now, mpc, mainLoc, glVars,
              verified, vrec, histVars, snapVars, offVars, mapVars, uiVars, backoffVars>>

(* struct pollfd pfd; pfd.fd = fd; then the main loop is entered. *)
PoolLoopEntry ==
  /\ mpc = "m_poll"
  /\ pool.pc = "init"
  /\ pfd' = [fd |-> fd]
  /\ pool' = [pool EXCEPT !.pc = "poll"]
  /\ UNCHANGED <<capVars, startVars, v, poolRest>>

(* poll(&pfd, 1, POLL_TIMEOUT_MS) *)
PoolPoll ==
  /\ pool.pc = "poll"
  /\ pool' = [pool EXCEPT !.pc = "dq"]
  /\ UNCHANGED <<capVars, startVars, v, pfd, poolRest>>

(* DQBUF of the main loop, skipped while a reopen is in progress: no frame *)
(* (EAGAIN), EINVAL (a worker is started), or a queued buffer is handed    *)
(* to the application.                                                     *)
PoolMainDq ==
  /\ pool.pc = "dq"
  /\ IF auto_reopen_in_progress
     THEN /\ pool' = [pool EXCEPT !.pc = "poll"]
          /\ UNCHANGED startVars
     ELSE \E r \in {"EAGAIN", "EINVAL", "OK"} :
          CASE r = "EAGAIN" ->
                 /\ pool' = [pool EXCEPT !.pc = "poll"]
                 /\ UNCHANGED startVars
            [] r = "EINVAL" ->
                 /\ pool' = [pool EXCEPT !.pc = "poll"]
                 /\ start_background_reopen
            [] r = "OK" ->
                 /\ fd >= 0 /\ streaming
                 /\ \E i \in Queued :
                      pool' = [pc |-> "requeue", owned |-> pool.owned \cup {i}, idx |-> i]
                 /\ UNCHANGED startVars
  /\ UNCHANGED <<capVars, v, pfd, poolRest>>

(* What the requeue of buf.index leaves in the application's hands:        *)
(* for (attempt < QBUF_RETRIES) if (QBUF == 0) { qbuf_ok = true; break; }  *)
(* and only a message if (!qbuf_ok).                                       *)
RequeueOwned(owned, idx, qbuf_ok) == IF qbuf_ok THEN owned \ {idx} ELSE owned

(* The requeue of the main loop. *)
PoolMainRequeue ==
  /\ pool.pc = "requeue"
  /\ \E qbuf_ok \in BOOLEAN :
       pool' = [pc |-> "poll", owned |-> RequeueOwned(pool.owned, pool.idx, qbuf_ok),
                idx |-> 0]
  /\ UNCHANGED <<capVars, startVars, v, pfd, poolRest>>

(* manual_restart_v4l_only of the worker: restart_v4l_stream on the open   *)
(* device ("soft"), else close, open, REQBUFS .. STREAMON ("full"), else   *)
(* false with the device closed ("fail"); a new pool has every buffer      *)
(* queued.                                                                 *)
PoolWorkerRestart ==
  /\ wpc = "w_loop"
  /\ \E outcome \in {"soft", "full", "fail"}, n \in GrantCounts, newfd \in OpenFds :
       CASE outcome = "soft" ->
              /\ fd >= 0
              /\ buffers' = n /\ mapped' = n /\ streaming' = TRUE
              /\ wpc' = "w_vpoll"
              /\ UNCHANGED fd
         [] outcome = "full" ->
              /\ fd' = newfd
              /\ buffers' = n /\ mapped' = n /\ streaming' = TRUE
              /\ wpc' = "w_vpoll"
         [] outcome = "fail" ->
              /\ fd' = -1
              /\ buffers' = 0 /\ mapped' = UnmapAll(mapped) /\ streaming' = FALSE
              /\ wpc' = "w_loop"
  /\ pool' = [pool EXCEPT !.owned = {}]
  /\ v' = 0
  /\ UNCHANGED <<cur_fmt, auto_reopen_in_progress, pfd, poolRest>>

(* One pass of the verify loop: DQBUF; a frame with bytes is requeued and  *)
(* accepted if the QBUF succeeds; an empty frame is requeued; a failed     *)
(* QBUF is logged.  After BG_REOPEN_VERIFY_MAX_ATTEMPTS passes the reopen  *)
(* is tried again.                                                         *)
PoolVerify ==
  /\ wpc = "w_vpoll"
  /\ IF v >= BG_REOPEN_VERIFY_MAX_ATTEMPTS
     THEN /\ wpc' = "w_loop"
          /\ UNCHANGED <<v, pool>>
     ELSE \E dq \in {"EAGAIN", "OK"}, b \in 0 .. MaxBytes, q \in BOOLEAN :
          IF dq = "OK"
          THEN /\ fd >= 0 /\ streaming
               /\ \E i \in Queued :
                    pool' = [pool EXCEPT !.owned = RequeueOwned(pool.owned \cup {i}, i, q)]
               /\ IF VerifyFrame(dq, b, q)
                  THEN wpc' = "w_exit" /\ UNCHANGED v
                  ELSE wpc' = "w_vpoll" /\ v' = v + 1
          ELSE /\ b = 0 /\ q = FALSE
               /\ wpc' = "w_vpoll" /\ v' = v + 1
               /\ UNCHANGED pool
  /\ UNCHANGED <<capVars, auto_reopen_in_progress, pfd, poolRest>>

PoolNext ==
  \/ MStartup \/ PoolLoopEntry \/ PoolPoll \/ PoolMainDq \/ PoolMainRequeue
  \/ PoolWorkerRestart \/ PoolVerify \/ WExit

PoolInit == Init /\ cur_fmt = 1

PoolSpec == PoolInit /\ [][PoolNext]_vars

----------------------------------------------------------------------------
(* The worker's backoff: int attempt = 0; each pass attempt++; after a    *)
(* failed restart sleep_for(1000 + std::min(attempt*500, 5000)) ms.        *)

(* attempt * 500 as a 32-bit int in two's complement, for attempt >= 0:    *)
(* 500 = 4 * 125, so the product modulo 2^32 is four times                 *)
(* (125 * attempt) modulo 2^30, read as a signed number.                   *)
TwoTo30 == INT_MAX \div 2 + 1
AddMod30(x, y) == (x + y) % TwoTo30
Times5Mod30(x) == AddMod30(AddMod30(AddMod30(x, x), AddMod30(x, x)), x)
Wrapped500(a) ==
  LET t == Times5Mod30(Times5Mod30(Times5Mod30(a % TwoTo30)))
  IN  IF t < TwoTo30 \div 2 THEN 4 * t ELSE 4 * (t - TwoTo30)

(* The milliseconds slept for the given attempt number. While attempt*500  *)
(* fits an int it is 1000 + min(attempt*500, 5000). Beyond that the        *)
(* multiplication overflows, which is undefined: the build either wraps    *)
(* the product, or (having taken the product for the mathematical one,     *)
(* which is above 5000) sleeps the capped 1000 + 5000.                     *)
BackoffDelays(attempt) ==
  IF attempt <= INT_MAX \div 500
  THEN {1000 + Min(attempt * 500, 5000)}
  ELSE {1000 + Min(Wrapped500(attempt), 5000), 1000 + 5000}

(* Attempt numbers the passes are followed from: the worker's start, the  *)
(* last products that fit an int, the last values of the counter.          *)
AttemptStarts == {0, INT_MAX \div 500 - MaxPasses \div 2, INT_MAX - MaxPasses}
InWindow(attempt) ==
  /\ attempt < INT_MAX
  /\ \E s \in AttemptStarts : s <= attempt /\ attempt < s + MaxPasses

backoffRest == <<capVars, recVars, need_gl_update, restart_mutex, now, mpc, mainLoc,
                 glVars, startVars, workLoc, histVars, snapVars, offVars, mapVars,
                 uiVars, poolVars>>

(* A pass whose manual_restart_v4l_only fails: attempt++, the backoff     *)
(* sleep, continue.                                                        *)
BackoffRestartFailed ==
  /\ backoff.running
  /\ InWindow(backoff.attempt)
  /\ \E d \in BackoffDelays(backoff.attempt + 1) :
       backoff' = [backoff EXCEPT !.attempt = @ + 1, !.delay = d]
  /\ UNCHANGED backoffRest

(* A pass whose restart succeeds and whose verification fails: attempt++,  *)
(* the fixed sleep of 800 ms, no backoff sleep.                            *)
BackoffVerifyFailed ==
  /\ backoff.running
  /\ InWindow(backoff.attempt)
  /\ backoff' = [backoff EXCEPT !.attempt = @ + 1]
  /\ UNCHANGED backoffRest

(* The thread starts: int attempt = 0. *)
BackoffStart ==
  /\ ~backoff.running
  /\ backoff' = [attempt |-> 0, delay |-> 0, running |-> TRUE]
  /\ UNCHANGED backoffRest

(* The pass that verifies: break; the worker exits and attempt is gone. *)
BackoffVerified ==
  /\ backoff.running
  /\ backoff.attempt > 0
  /\ backoff' = NoBackoff
  /\ UNCHANGED backoffRest

BackoffNext ==
  BackoffStart \/ BackoffRestartFailed \/ BackoffVerifyFailed \/ BackoffVerified

(* The worker in its loop after a pass whose restart failed: the first     *)
(* pass of one of the three windows.                                       *)
BackoffInit ==
  /\ InitMain /\ cur_fmt = 1
  /\ \E s \in AttemptStarts :
       \E d \in BackoffDelays(s + 1) :
         backoff = [attempt |-> s + 1, delay |-> d, running |-> TRUE]

BackoffSpec == BackoffInit /\ [][BackoffNext]_vars

----------------------------------------------------------------------------
(* Properties *)

WorkerStep ==
  \/ WLoop \/ WMrLock \/ WSoftOff \/ WSoftAlloc \/ WClose \/ WOpen \/ WRelock
  \/ WFullAlloc \/ WVPoll \/ WVLock \/ WVBody \/ WVDone \/ WExit

(* The worker is between the first structural step of a restart or reopen  *)
(* (stream-off / unmap / close) and its last (stream-on).                  *)
WorkerInStructuralChange ==
  wpc \in {"w_soft_alloc", "w_close", "w_open", "w_relock", "w_full_alloc"}

(* The next step of the main thread is an ioctl on fd (QBUF, DQEVENT,      *)
(* G_FMT) or a read of the buffers vector or of the current format.        *)
MainTouchesCapture ==
  \/ mpc \in {"m_upload", "m_requeue"}
  \/ mpc = "m_event" /\ revents_pri

(* C1: need_gl_update is set only once the background reopen path has      *)
(* verified the current stream (a nonzero frame dequeued and requeued      *)
(* after the restart): need_gl_update = TRUE implies the stream is         *)
(* verified.                                                               *)
C1_ResyncOnlyAfterVerified == need_gl_update => stream_verified

(* C2: a format-changed (EINVAL) dequeue error that leaves the error       *)
(* counter below EINVAL_RESTART_THRESHOLD starts no background worker.     *)
C2_BelowThresholdNoWorker ==
  [][ (/\ mpc = "m_dq"
       /\ einval_count' = einval_count + 1
       /\ einval_count' < EINVAL_RESTART_THRESHOLD
       /\ ~auto_reopen_in_progress)
      => ~auto_reopen_in_progress' ]_vars

(* C3: requeueing a dequeued frame of zero bytes is not a good frame: it   *)
(* does not clear signal_lost, does not move last_good_frame and does not  *)
(* lower the error counter, even when the requeue succeeds.                *)
C3_ZeroByteFrameNotGood ==
  [][ (mpc = "m_requeue" /\ bytesused0 = 0 /\ mpc' = "m_event")
      => /\ signal_lost => signal_lost'
         /\ last_good_frame' = last_good_frame
         /\ einval_count' >= einval_count ]_vars

(* C4: a failed restart only leads to a further attempt, never to a        *)
(* stopped worker: while a background reopen is in progress the worker     *)
(* has a next step, unless it waits for a lock the main thread holds.      *)
C4_WorkerNeverStops ==
  (auto_reopen_in_progress /\ restart_mutex # "main") => ENABLED WorkerStep

(* C5: at the timeout check, when more than PATTERN_TIMEOUT_MS have passed *)
(* since the last good frame, signal loss is not declared yet, no reopen   *)
(* is running and no recovery completed within the last RECOVERY_GRACE_MS, *)
(* the main loop declares signal loss and starts a background reopen.      *)
C5_TimeoutDetected ==
  [][ (/\ mpc = "m_timeout" /\ mpc' = "m_render"
       /\ ~signal_lost /\ ~auto_reopen_in_progress
       /\ now - last_good_frame > PATTERN_TIMEOUT_MS
       /\ (recovered_at = 0 \/ now - recovered_at >= RECOVERY_GRACE_MS))
      => (signal_lost' /\ auto_reopen_in_progress') ]_vars

(* C6: the error counter counts the run of EINVAL dequeue errors since the *)
(* last good frame, one per error (so that a run of                        *)
(* EINVAL_RESTART_THRESHOLD errors brings it to the threshold).            *)
C6_CounterCountsRun == einval_count = einval_run

(* C7: between the first and the last structural step of a restart or      *)
(* reopen the worker holds restart_mutex.                                  *)
C7_StructuralChangeUnderLock ==
  WorkerInStructuralChange => restart_mutex = "worker"

(* C8: the main thread is never about to use the device handle, the buffer *)
(* set or the current format while the worker is inside a structural       *)
(* change.                                                                 *)
C8_NoRaceOnCaptureState == ~(MainTouchesCapture /\ WorkerInStructuralChange)

(* C9: the main loop never waits for the worker: it is never at a          *)
(* lock_guard on restart_mutex while the worker holds the mutex.           *)
C9_MainNeverWaitsForWorker ==
  ~(mpc \in {"m_gl_lock", "m_ev_lock"} /\ restart_mutex = "worker")

(* C10: the worker's verified flag is true only when, in this verify       *)
(* attempt, poll reported the device readable, DQBUF succeeded with a      *)
(* plane-0 byte count above zero and the QBUF of that buffer succeeded.    *)
C10_VerifiedOnlyAfterGoodFrame ==
  verified => (vrec.pollin /\ vrec.dq = "OK" /\ vrec.bytes > 0 /\ vrec.qbuf)

(* A verify attempt has just accepted a frame. *)
C10_Witness == wpc = "w_vdone" /\ verified /\ stream_verified

(* C11: when this iteration's DQBUF failed with EINVAL or returned a frame *)
(* of zero bytes, the frame drawn at the end of the same iteration is      *)
(* drawn with the show-pattern flag set, whatever the worker did in        *)
(* between.                                                                *)
C11_FallbackShownSameIteration ==
  [][ (mpc = "m_render" /\ mpc' = "m_ui" /\ dq_result \in {"EINVAL", "ZERO"})
      => showPattern' ]_vars

(* C12: a DQBUF step handles its error by class: EAGAIN and any other      *)
(* errno leave the recovery state as it was; EINVAL and EIO each set       *)
(* signal_lost, count the error and start the reopen path.                 *)
C12_ErrorsHandledByClass ==
  [][ (mpc = "m_dq" /\ mpc' = "m_event" /\ ~auto_reopen_in_progress)
      => CASE dq_result' \in {"EAGAIN", "EOTHER"} -> UNCHANGED <<recVars, startVars>>
           [] dq_result' \in {"EINVAL", "EIO"} ->
                /\ signal_lost'
                /\ einval_count' = einval_count + 1
                /\ auto_reopen_in_progress'
           [] OTHER -> TRUE ]_vars

(* What one EINVAL dequeue error below the threshold makes of the error    *)
(* counter, the signal-lost flag and the worker-started status.            *)
EinvalOutcome == <<einval_count + 1, TRUE, TRUE>>

(* C13: a SOURCE_CHANGE event with an unreadable or zero-sized format      *)
(* leaves the error counter, signal_lost and the worker-started status     *)
(* exactly as one EINVAL dequeue error from the same state would.          *)
C13_SourceChangeAsEinval ==
  [][ (/\ MEvent /\ mpc' = "m_event"
       /\ ~auto_reopen_in_progress
       /\ einval_count + 1 < EINVAL_RESTART_THRESHOLD)
      => <<einval_count', signal_lost', auto_reopen_in_progress'>> = EinvalOutcome ]_vars

C16_AtLeastTwoBuffers == streaming => buffers >= 2

(* C17: no mapping outlives its pool: whenever the buffer set is empty      *)
(* (after a failed allocation or a teardown) nothing is mapped, and the    *)
(* shutdown step leaves nothing mapped.                                    *)
C17_AllOrNothing ==
  /\ [](buffers = 0 => mapped = 0)
  /\ [][ (mpc = "m_shutdown" /\ mpc' = "m_done") => mapped' = 0 ]_vars

(* C14: a running snapshot thread reads vectors of its own, never the      *)
(* mapped capture buffer, and the bytes it holds and reads are the bytes   *)
(* lastY held when the snapshot was requested, whatever frames, requeues   *)
(* and unmaps happened since.                                              *)
C14_SnapshotReadsPrivateCopy ==
  snap.pc = "running"
    => /\ snap.src = "own"
       /\ snap.ybuf = snap.req
       /\ snap.seen \in {0, snap.req}

(* The snapshot thread has read its frame after the capture buffer was     *)
(* unmapped and main's copy was replaced by a later frame.                 *)
C14_Witness ==
  /\ snap.pc = "running" /\ snap.seen = snap.req /\ snap.seen # 0
  /\ live_frame = 0 /\ lastY # snap.req

(* The offset table has been loaded. *)
Loaded == offsetData # <<>>

(* Entry j (0-based) of a table. *)
Entry(t, j) == <<t[2 * j + 1], t[2 * j + 2]>>

(* A line that holds two integers first. *)
WellFormed(line) == Len(line) >= 2 /\ line[1].k = "int" /\ line[2].k = "int"

(* The (x, y) pairs of the valid lines of a module file, in file order. *)
PairsOf(f) ==
  LET good == SelectSeq(f.lines, WellFormed)
  IN  [i \in 1 .. Len(good) |-> <<good[i][1].v, good[i][2].v>>]

(* C18: the table is three blocks of PER_MODULE entries, one per module    *)
(* file: the k-th valid line of file m is at slot PER_MODULE*m + k, and    *)
(* the rest of the block of a short or missing file is (0,0), whatever     *)
(* the other files hold.                                                   *)
C18_OneBlockPerModule ==
  Loaded =>
    \A m \in 1 .. 3, k \in 0 .. PER_MODULE - 1 :
      Entry(offsetData, PER_MODULE * (m - 1) + k)
        = IF k < Len(PairsOf(modFiles[m])) THEN PairsOf(modFiles[m])[k + 1] ELSE <<0, 0>>

(* C19: whatever the three files hold, the loaded table has exactly        *)
(* TABLE_ENTRIES entries: the pairs of the valid lines in order as far as  *)
(* the table reaches, then (0,0); valid lines beyond the capacity are      *)
(* dropped.                                                                *)
C19_AlwaysFullTable ==
  Loaded =>
    LET all == PairsOf(modFiles[1]) \o PairsOf(modFiles[2]) \o PairsOf(modFiles[3])
    IN  /\ Len(offsetData) = 2 * TABLE_ENTRIES
        /\ \A j \in 0 .. TABLE_ENTRIES - 1 :
             Entry(offsetData, j) = IF j < Len(all) THEN all[j + 1] ELSE <<0, 0>>

(* A table loaded with the first module file missing and more valid lines  *)
(* in the other two than the table has entries.                            *)
C19_Witness ==
  /\ Loaded
  /\ ~modFiles[1].found
  /\ Len(PairsOf(modFiles[2])) + Len(PairsOf(modFiles[3])) > TABLE_ENTRIES

(* A line the offset format calls malformed: blank, a comment, not         *)
(* numeric, or one number only.                                            *)
Malformed(line) ==
  \/ Len(line) = 0
  \/ line[1].k \in {"hash", "word"}
  \/ Len(line) = 1
  \/ line[2].k # "int"

(* The module files with their malformed lines deleted. *)
Cleaned(files) ==
  [m \in 1 .. 3 |->
     [found |-> files[m].found,
      lines |-> SelectSeq(files[m].lines, LAMBDA l : ~Malformed(l))]]

(* The table the example file alone yields. *)
ExampleTable ==
  [i \in 1 .. 2 * TABLE_ENTRIES |->
     CASE i = 1 -> -3 [] i = 2 -> 5 [] i = 5 -> 2 [] i = 6 -> -1 [] OTHER -> 0]

(* C20: malformed lines take up no slot and change nothing: the table is   *)
(* the one the same files yield with their malformed lines deleted; the    *)
(* file '-3 5', '0 0', '2 -1' alone yields (-3,5), (0,0), (2,-1) and then  *)
(* (0,0) in every remaining slot.                                          *)
C20_MalformedLinesSkipped ==
  Loaded =>
    /\ offsetData = loadOffsetsFromModuleFiles(Cleaned(modFiles))
    /\ (modFiles = <<ExampleFile, Missing, Missing>> => offsetData = ExampleTable)
    /\ (modFiles = <<MessyFile, Missing, Missing>> => offsetData = ExampleTable)

(* A table loaded from a first file with malformed lines between its valid *)
(* lines, or from the example file alone.                                  *)
C20_Witness ==
  /\ Loaded
  /\ modFiles[1] = MessyFile
  /\ Entry(offsetData, 2) = <<2, -1>>

(* The shader has run for a fragment. *)
Evaluated == frag.state # "none"

(* The configured GapSet: the first gap_count (at most 8) entries of       *)
(* gap_rows.                                                               *)
GapSet(u) == {u.gap_rows[i] : i \in 1 .. Min(Max(u.gap_count, 0), GAP_ARRAY_SIZE)}

(* Height (in half pixels) of a grid of n rows with k spacings collapsed. *)
HeightWith(u, k) ==
  2 * (u.u_numTilesPerCol * u.u_tileH + u.u_spacingY * (u.u_numTilesPerCol - 1 - k))

(* C21 as stated: for every configured GapSet and every tilesPerColumn the *)
(* total grid height is tilesPerColumn * tileHeight                        *)
(* + spacing * (tilesPerColumn - 1 - |GapSet|).                            *)
C21_HeightByGapSetSize ==
  Evaluated => frag.totalGridH = HeightWith(uniforms, Cardinality(GapSet(uniforms)))

(* C21 amended: the total grid height is tilesPerColumn * tileHeight       *)
(* + spacing * (tilesPerColumn - 1 - k) with k the number of distinct      *)
(* GapSet entries that are row boundaries of the grid                      *)
(* (1 .. tilesPerColumn - 1); GapSet = {5,10} over 15 rows gives the       *)
(* height without gaps minus exactly two spacings.                         *)
C21_HeightByCollapsedBoundaries ==
  Evaluated =>
    LET n == uniforms.u_numTilesPerCol
        collapsed == GapSet(uniforms) \cap (1 .. n - 1)
    IN  /\ frag.totalGridH = HeightWith(uniforms, Cardinality(collapsed))
        /\ (n = 15 /\ GapSet(uniforms) = {5, 10})
             => frag.totalGridH = HeightWith(uniforms, 0) - 2 * (2 * uniforms.u_spacingY)

(* A fragment of a grid of 15 rows with GapSet = {5,10}. *)
C21_Witness ==
  Evaluated /\ uniforms.u_numTilesPerCol = 15 /\ GapSet(uniforms) = {5, 10}

(* The shader has sampled the source for the fragment. *)
Sampled == frag.state = "sampled"

(* The mapper's rotation by r applied four times in succession. *)
RotateFourTimes(uv, r) ==
  rotate90_centered(rotate90_centered(rotate90_centered(rotate90_centered(uv, r), r), r), r)

NominalOrigin(u, row, col, gridH) ==
  LET spaced == {b \in 1 .. row : ~isGapZero(u, b)}
      top == row * u.u_tileH + Cardinality(spaced) * u.u_spacingY
  IN  <<2 * (u.u_marginX + col * (u.u_tileW + u.u_spacingX)),
        gridH - 2 * (top + u.u_tileH)>>

(* C24: for a fragment whose tile (row, col) was selected, the display     *)
(* rectangle starts at the tile's nominal origin plus its table offset     *)
(* (nominal (100,200) with offset (-3,5) starts at (97,205)); a fragment   *)
(* outside that rectangle is background and no source coordinate is        *)
(* computed for it; for a fragment inside it the pixel-within-tile         *)
(* coordinate is the fragment's position minus the shifted origin.         *)
C24_ShiftedRectangle ==
  (Evaluated /\ frag.reject # "quick") =>
    LET u == uniforms
        nominal == NominalOrigin(u, frag.tileRow, frag.tileCol, frag.totalGridH)
        slot == clamp(frag.tileRow * u.u_numTilesPerRow + frag.tileCol, 0, TABLE_ENTRIES - 1)
        off == Entry(u.offsetxy1, slot)
        start == <<nominal[1] + 2 * off[1], nominal[2] + 2 * off[2]>>
        outPx == <<2 * frag.px[1] + 1, 2 * frag.px[2] + 1>>
        inside == /\ outPx[1] >= start[1] /\ outPx[1] < start[1] + 2 * u.u_tileW
                  /\ outPx[2] >= start[2] /\ outPx[2] < start[2] + 2 * u.u_tileH
    IN  /\ frag.off = off
        /\ frag.rectStart = start
        /\ inside <=> Sampled
        /\ ~inside => (frag.state = "background" /\ frag.uvTrans.one = 0)
        /\ inside => frag.pxInTile = <<outPx[1] - start[1], outPx[2] - start[2]>>
        /\ (u = ExampleUniforms /\ frag.tileRow = 0 /\ frag.tileCol = 0)
             => (nominal = <<2 * 100, 2 * 200>> /\ off = <<-3, 5>>
                 /\ frag.rectStart = <<2 * 97, 2 * 205>>)

(* The fragment at the shifted origin (97,205) of the example tile is      *)
(* sampled, at pixel-within-tile (0.5, 0.5).                               *)
C24_Witness ==
  /\ Sampled /\ uniforms = ExampleUniforms /\ frag.px = <<97, 205>>
  /\ frag.pxInTile = <<1, 1>>

(* The uniforms the host's current values stand for: ctrl, rotation,       *)
(* flips, gaps, decode options, the active segment held inside the         *)
(* segment grid, the offset table.                                         *)
HostParams ==
  [segmentIndex |-> clamp(host.activeSegment, 1,
                          Max(1, host.ctrl.segmentsX * host.ctrl.segmentsY)),
   u_fullInputSize |-> <<host.ctrl.fullInputW, host.ctrl.fullInputH>>,
   u_segmentsX |-> host.ctrl.segmentsX, u_segmentsY |-> host.ctrl.segmentsY,
   u_subBlockSize |-> <<host.ctrl.subBlockW, host.ctrl.subBlockH>>,
   u_tileW |-> host.ctrl.tileW, u_tileH |-> host.ctrl.tileH,
   u_spacingX |-> host.ctrl.spacingX, u_spacingY |-> host.ctrl.spacingY,
   u_marginX |-> host.ctrl.marginX, u_numTilesPerRow |-> host.ctrl.numTilesPerRow,
   u_numTilesPerCol |-> host.ctrl.numTilesPerCol,
   offsetxy1 |-> offsetData, rot |-> host.rotation, flip_x |-> host.flip_x,
   flip_y |-> host.flip_y, gap_count |-> host.gap_count, gap_rows |-> host.gap_rows_arr,
   inputTilesTopToBottom |-> host.ctrl.inputTilesTopToBottom,
   full_range |-> host.opt_full_range, use_bt709 |-> host.opt_use_bt709]

(* C25: every frame is drawn with uniforms equal to the host's current     *)
(* values: whatever reloads and transform commands came before, the        *)
(* uniforms the draw of a render step runs with are HostParams.            *)
C25_FrameDrawnWithCurrentParams ==
  [][ UiRender => uniforms' = HostParams' ]_vars

(* A frame drawn after a reload to a smaller segment grid, a flip, a        *)
(* rotation and a new offset table.                                        *)
C25_Witness ==
  /\ host # NoHost /\ mpc = "m_ui"
  /\ host.activeSegment = 3 /\ uniforms.segmentIndex = 2
  /\ host.ctrl = TwoSegmentCtrl /\ host.rotation = 2 /\ host.flip_x = 1
  /\ modFiles[1] = ExampleFile
  /\ uniforms = HostParams

(* A reload, mirror or rotation command. *)
UiCommand == UiKeyK \/ UiKeyH \/ UiKeyV \/ UiKeyR

(* C26: a reload, a mirror toggle or a rotation step leaves the capture    *)
(* side as it was: device handle, buffer set and mappings, stream, format, *)
(* error counter, signal-lost flag, worker status.                         *)
C26_CommandsLeaveCaptureAlone ==
  [][ UiCommand
      => UNCHANGED <<capVars, einval_count, signal_lost, startVars, restart_mutex>> ]_vars

(* The stream runs on a full pool and each of the commands has acted. *)
C26_Witness ==
  /\ host # NoHost
  /\ streaming /\ buffers = BUF_COUNT /\ mapped = BUF_COUNT /\ fd = DeviceFd
  /\ host.ctrl = OneSegmentCtrl /\ host.flip_x = 1 /\ host.flip_y = 0 /\ host.rotation = 2

(* C27: a soft restart of the main loop calls restart_v4l_stream at most   *)
(* STREAM_RESTART_RETRIES (3) times; if a call succeeds the error counter  *)
(* is 0 and signal_lost is false afterwards, and if every call fails a     *)
(* background reopen worker is started.                                    *)
C27_SoftRestartBounded ==
  [][ (mpc = "m_dq" /\ soft' # NoSoft)
      => /\ soft'.r \in 1 .. STREAM_RESTART_RETRIES
         /\ soft'.restarted => (einval_count' = 0 /\ ~signal_lost')
         /\ ~soft'.restarted => /\ soft'.r = STREAM_RESTART_RETRIES
                                /\ auto_reopen_in_progress' /\ wpc' = "w_loop" ]_vars

(* The soft restart loop of the main thread has run in this iteration. *)
C27_SoftRestartRan == soft # NoSoft

(* C28: no thread is ever about to lock restart_mutex while it holds it:   *)
(* the worker never stands at the second lock_guard of the restart helper  *)
(* with the mutex in its own hands, and the main thread never stands at    *)
(* one of its lock_guards holding it.                                      *)
C28_NoLockWhileHolding ==
  /\ ~(wpc = "w_relock" /\ restart_mutex = "worker")
  /\ ~(wpc \in {"w_mr_lock", "w_vlock"} /\ restart_mutex = "worker")
  /\ ~(mpc \in {"m_gl_lock", "m_ev_lock"} /\ restart_mutex = "main")

(* The steps of the main thread that call start_background_reopen(): the   *)
(* DQBUF block (EINVAL, zero-byte frame), the SOURCE_CHANGE event, the     *)
(* timeout check and key 'o'.                                              *)
TriggerStep == MDq \/ MEvent \/ MTimeout \/ MUi

(* C29: at most one background reopen worker exists at any time: a         *)
(* trigger step puts a worker thread at its loop head only when no worker  *)
(* exists and auto_reopen_in_progress was false, it sets the flag, and the *)
(* flag is true whenever a worker exists.                                  *)
C29_AtMostOneWorker ==
  /\ [](wpc # "w_idle" => auto_reopen_in_progress)
  /\ [][ (wpc' # wpc /\ TriggerStep)
         => (wpc = "w_idle" /\ ~auto_reopen_in_progress /\ auto_reopen_in_progress') ]_vars

(* A recovery trigger (invalid SOURCE_CHANGE) has fired while the worker   *)
(* was verifying its restarted stream, and the worker is still the one at  *)
(* its verify loop.                                                        *)
C29_Witness ==
  /\ wpc = "w_vpoll" /\ auto_reopen_in_progress
  /\ signal_lost /\ mpc = "m_event" /\ revents_pri

(* C30: no stuck degraded state.  The main loop never stands at the head   *)
(* of an iteration with signal_lost set, no background reopen worker       *)
(* (none running, auto_reopen_in_progress false) and no resync pending:    *)
(* from there, as long as every dequeue reports no data, the timeout check *)
(* is skipped because signal_lost is already set, so nothing would start a *)
(* worker.                                                                 *)
C30_NoStuckDegraded ==
  ~(/\ mpc = "m_poll"
    /\ signal_lost
    /\ ~auto_reopen_in_progress /\ wpc = "w_idle"
    /\ ~need_gl_update)

(* C31: every buffer the application dequeues is handed back to the driver *)
(* before it dequeues again: at most one buffer of the current pool is in  *)
(* the application's hands at any time, also after a failed enqueue.       *)
C31_AtMostOneBufferOwned == Cardinality(pool.owned) <= 1

(* C33: whenever the main loop is about to poll while a device handle is   *)
(* open, the descriptor in pfd is that handle, also after a full reopen    *)
(* has replaced it.                                                        *)
C33_PollsCurrentHandle ==
  (pool.pc = "poll" /\ fd >= 0) => pfd.fd = fd

(* C32: once the main thread has left its loop, unmapped the buffers and   *)
(* closed the device, no background reopen worker exists: none is at any   *)
(* step of its loop and auto_reopen_in_progress is false.                  *)
C32_NoWorkerAfterShutdown ==
  mpc = "m_done" => (wpc = "w_idle" /\ ~auto_reopen_in_progress)

(* The fragment's centre in half pixels. *)
OutPx == <<2 * frag.px[1] + 1, 2 * frag.px[2] + 1>>

(* floor((outX - margin) / (tileW + spacingX)) for the fragment. *)
FloorCol(u) == (OutPx[1] - 2 * u.u_marginX) \div (2 * (u.u_tileW + u.u_spacingX))

(* C34: the tile column of a fragment is                                   *)
(* floor((outX - margin) / (tileW + spacingX)); a fragment whose column is *)
(* outside [0, tilesPerRow) is background, and so is every fragment with   *)
(* outX < margin.                                                          *)
C34_ColumnByFloor ==
  Evaluated =>
    LET u == uniforms
        col == FloorCol(u)
    IN  /\ frag.tileCol = col
        /\ (col < 0 \/ col >= u.u_numTilesPerRow) => frag.state = "background"
        /\ OutPx[1] < 2 * u.u_marginX => frag.state = "background"

(* Distance of the top of row r from the grid top, in half pixels: the     *)
(* heights of the rows above and the spacing of every boundary 1..r that   *)
(* is not in the GapSet.                                                   *)
RowStart(u, r) ==
  2 * (r * u.u_tileH + u.u_spacingY * Cardinality((1 .. r) \ GapSet(u)))

(* The rows whose band [start, start + tileH) holds the fragment. *)
RowsHolding(u, gridH) ==
  {r \in 0 .. u.u_numTilesPerCol - 1 :
     /\ gridH - OutPx[2] >= RowStart(u, r)
     /\ gridH - OutPx[2] < RowStart(u, r) + 2 * u.u_tileH}

(* C35: the tile row of a fragment is the one row whose band               *)
(* [start_r, start_r + tileH) holds its distance from the grid top,        *)
(* start_r adding tileH for each earlier row and the spacing for each      *)
(* earlier boundary that is not in the GapSet; a fragment in a spacing     *)
(* band or outside the grid has no row and is background; the bottom of    *)
(* the last row is the total grid height.                                  *)
C35_RowByBand ==
  Evaluated =>
    LET u == uniforms
        rows == RowsHolding(u, frag.totalGridH)
    IN  /\ Cardinality(rows) <= 1
        /\ rows # {} => frag.tileRow \in rows
        /\ rows = {} => (frag.tileRow = -1 /\ frag.state = "background")
        /\ RowStart(u, u.u_numTilesPerCol - 1) + 2 * u.u_tileH = frag.totalGridH

(* A fragment of the row below a collapsed boundary, in a grid that also   *)
(* has a spaced boundary.                                                  *)
C35_Witness ==
  /\ Evaluated /\ frag.reject # "quick" /\ frag.tileRow = 2
  /\ uniforms.u_numTilesPerCol = 3 /\ GapSet(uniforms) \cap (1 .. 2) = {2}
  /\ RowStart(uniforms, 2) = 2 * (3 * uniforms.u_tileH + uniforms.u_spacingY) - 2 * uniforms.u_tileH


(* The fragment lies in the display rectangle of tile (row, col): the      *)
(* nominal rectangle moved by the offset of the tile's table slot.         *)
InShiftedRect(u, row, col, gridH) ==
  LET nominal == NominalOrigin(u, row, col, gridH)
      off == Entry(u.offsetxy1, clamp(row * u.u_numTilesPerRow + col, 0, TABLE_ENTRIES - 1))
      start == <<nominal[1] + 2 * off[1], nominal[2] + 2 * off[2]>>
  IN  /\ OutPx[1] >= start[1] /\ OutPx[1] < start[1] + 2 * u.u_tileW
      /\ OutPx[2] >= start[2] /\ OutPx[2] < start[2] + 2 * u.u_tileH

(* C36: a shifted tile is shown in full: a fragment of the window that     *)
(* lies in the shifted display rectangle of a tile (and of no other tile)  *)
(* is sampled, as a pixel of that tile.                                    *)
C36_ShiftedTileShownInFull ==
  Evaluated =>
    LET u == uniforms
        tiles == (0 .. u.u_numTilesPerCol - 1) \X (0 .. u.u_numTilesPerRow - 1)
        holding == {t \in tiles : InShiftedRect(u, t[1], t[2], frag.totalGridH)}
    IN  \A t \in holding :
          holding = {t} => (Sampled /\ frag.tileRow = t[1] /\ frag.tileCol = t[2])


(* C37: the offset-table slot used for tile (row, column) is               *)
(* row * tilesPerRow + column held inside 0..149: the offset applied is    *)
(* that slot's entry; a tile whose flat index is above 149 gets the offset *)
(* of slot 149; the slot read is always one of the table.                  *)
C37_SlotClamped ==
  (Evaluated /\ frag.reject # "quick") =>
    LET u == uniforms
        flat == frag.tileRow * u.u_numTilesPerRow + frag.tileCol
        slot == IF flat < 0 THEN 0 ELSE IF flat > TABLE_ENTRIES - 1 THEN TABLE_ENTRIES - 1 ELSE flat
    IN  /\ slot \in 0 .. TABLE_ENTRIES - 1
        /\ 2 * slot + 2 <= Len(u.offsetxy1)
        /\ frag.off = Entry(u.offsetxy1, slot)
        /\ flat > TABLE_ENTRIES - 1 => frag.off = Entry(u.offsetxy1, TABLE_ENTRIES - 1)

(* A sampled fragment of a tile past the table's end (flat index above     *)
(* 149), displayed with the offset (1, 0) of slot 149.                     *)
C37_Witness ==
  /\ Sampled /\ uniforms = BigUniforms
  /\ frag.tileRow * uniforms.u_numTilesPerRow + frag.tileCol > TABLE_ENTRIES - 1
  /\ frag.off = <<1, 0>>


(* The origin of the active segment in the source, in half pixels. *)
SegmentOrigin(u) ==
  LET idx == (IF u.segmentIndex < 1 THEN 1
              ELSE IF u.segmentIndex > MAX_SEGMENT THEN MAX_SEGMENT ELSE u.segmentIndex) - 1
  IN  <<2 * (idx % u.u_segmentsX) * u.u_subBlockSize[1],
        2 * (idx \div u.u_segmentsX) * u.u_subBlockSize[2]>>

(* c held inside [0, 2 * (size - 1)], half pixels. *)
IntoCanvas(c, size) == IF c < 0 THEN 0 ELSE IF c > 2 * (size - 1) THEN 2 * (size - 1) ELSE c

(* The uniforms with an offset table of zeros. *)
WithoutOffsets(u) == [u EXCEPT !.offsetxy1 = [i \in 1 .. Len(u.offsetxy1) |-> 0]]

(* C38: for a sampled fragment the source coordinate is the segment origin *)
(* plus (tileW * column + pixel-within-tile x,                             *)
(* tileH * sourceRow + pixel-within-tile y), sourceRow being the tile row  *)
(* when the source rows are top to bottom and tilesPerColumn - 1 - tile    *)
(* row otherwise; it does not depend on the tile's offset (the same pixel  *)
(* of the tile displayed without offsets has the same source coordinate);  *)
(* it is held inside [0, canvas width) x [0, canvas height).               *)
C38_SourceCoordinate ==
  Sampled =>
    LET u == uniforms
        srcRow == IF u.inputTilesTopToBottom = 1 THEN frag.tileRow
                  ELSE u.u_numTilesPerCol - 1 - frag.tileRow
        org == SegmentOrigin(u)
        sx == org[1] + 2 * u.u_tileW * frag.tileCol + frag.pxInTile[1]
        sy == org[2] + 2 * u.u_tileH * srcRow + frag.pxInTile[2]
        plain == FragMain(WithoutOffsets(u),
                          <<frag.px[1] - frag.off[1], frag.px[2] - frag.off[2]>>)
    IN  /\ frag.sourceTileRow = srcRow
        /\ frag.inputCoord = <<IntoCanvas(sx, u.u_fullInputSize[1]),
                               IntoCanvas(sy, u.u_fullInputSize[2])>>
        /\ frag.inputCoord[1] >= 0 /\ frag.inputCoord[1] < 2 * u.u_fullInputSize[1]
        /\ frag.inputCoord[2] >= 0 /\ frag.inputCoord[2] < 2 * u.u_fullInputSize[2]
        /\ plain.state = "sampled" /\ plain.inputCoord = frag.inputCoord

(* A sampled fragment of a shifted tile of the second segment, source rows *)
(* bottom to top, whose source row differs from its tile row.              *)
C38_Witness ==
  /\ Sampled /\ uniforms.segmentIndex = 2 /\ uniforms.inputTilesTopToBottom = 0
  /\ frag.off # <<0, 0>> /\ frag.sourceTileRow # frag.tileRow
  /\ frag.sourceTileRow = uniforms.u_numTilesPerCol - 1 - frag.tileRow


(* A quarter-turn count k of clockwise quarter turns of (x, y) about the   *)
(* centre of the square [0, one] x [0, one].                               *)
Turned(x, y, one, k) ==
  CASE k % 4 = 0 -> <<x, y>>
    [] k % 4 = 1 -> <<y, one - x>>
    [] k % 4 = 2 -> <<one - x, one - y>>
    [] OTHER -> <<one - y, x>>

(* C39: the sample coordinate is the source coordinate turned by the       *)
(* quarter-turn count about the centre of the unit square, then flipped    *)
(* horizontally, then flipped vertically, then clamped; for every source   *)
(* coordinate, rotation step and flip combination it lies in               *)
(* [0,1] x [0,1].                                                          *)
C39_TransformOrder ==
  Sampled =>
    LET u == uniforms
        one == frag.uvIn.one
        t == Turned(frag.uvIn.x, frag.uvIn.y, one, u.rot)
        fx == IF u.flip_x = 1 THEN one - t[1] ELSE t[1]
        fy == IF u.flip_y = 1 THEN one - t[2] ELSE t[2]
    IN  /\ frag.uvTrans.one = one /\ one > 0
        /\ frag.uvTrans.x = Max(0, Min(fx, one))
        /\ frag.uvTrans.y = Max(0, Min(fy, one))
        /\ frag.uvTrans.x >= 0 /\ frag.uvTrans.x <= one
        /\ frag.uvTrans.y >= 0 /\ frag.uvTrans.y <= one

(* A sampled fragment under a quarter turn and the horizontal flip only,   *)
(* for which flipping before turning would give another coordinate.       *)
C39_Witness ==
  /\ Sampled /\ uniforms.rot = 1 /\ uniforms.flip_x = 1 /\ uniforms.flip_y = 0
  /\ frag.uvTrans.x = frag.uvIn.one - frag.uvIn.y
  /\ frag.uvTrans.x # frag.uvIn.y


(* C40: from one pass of the worker to a later one (the attempt number     *)
(* has grown) the backoff delay does not decrease, and it never exceeds    *)
(* 1000 + 5000 ms, for every value of the 32-bit attempt counter.          *)
C40_BackoffMonotoneCapped ==
  [][backoff'.attempt > backoff.attempt =>
       (backoff'.delay >= backoff.delay /\ backoff'.delay <= 1000 + 5000)]_vars

====
